---- MODULE Spec2Model ----
(***************************************************************************)
(* A model of nixdoc (imp.docgen): the scope/export resolver of            *)
(* collect_entries, the comment extractor with its legacy three-state      *)
(* scanner, the text normalizer, the title/anchor construction and the     *)
(* option document renderer.                                               *)
(*                                                                         *)
(* Texts are sequences of one-character strings, so that trimming,         *)
(* prefix stripping, splitting and joining are computed, not assumed.      *)
(* An Option<T> is a sequence of length at most one: None is <<>> and      *)
(* Some(x) is <<x>>.                                                       *)
(*                                                                         *)
(* Each component has its own specification (SpecFormat, SpecLegacy,       *)
(* Spec, SpecOptions, SpecTitle); the variables of the other components    *)
(* stay at their idle values.                                              *)
(***************************************************************************)
EXTENDS Integers, Sequences, FiniteSets, TLC

VARIABLES
    \* text normalizer / FileDoc command
    fdoc,       \* the structured file-level doc comment (Option<text>)
    flegacy,    \* the legacy file-level comment (Option<text>)
    fshift,     \* --shift-headings of the first run
    fshift2,    \* --shift-headings of a second run on the first run's output
    fpc,        \* position in the FileDoc command
    fout,       \* extract_file_doc's result (Option<text>)
    fout1,      \* the first run's printed document (Option<text>)
    fout2,      \* the second run's printed document
    fsum,       \* one run with shift fshift + fshift2
    \* legacy comment scanner (parse_doc_comment)
    raw,        \* the raw legacy comment text
    lines,      \* the lines raw.split_inclusive('\n') has still to yield
    state,      \* ParseState: "Doc", "Type" or "Example"
    doc_str,    \* the three buffers
    type_str,
    example_str,
    lpc,        \* position in parse_doc_comment
    comment,    \* the DocComment returned (Option)
    \* scope resolver (collect_entries)
    root,       \* the parsed module
    export,     \* the export list (Option<Seq(name)>)
    cpc,        \* position in main_with_options
    entries,    \* the entries collect_entries returned
    \* option document renderer
    options,    \* the OptionsMap: option name -> OptionDef
    keys,       \* the order in which the hash map yields its keys
    opc,        \* position in render_options_to_commonmark
    names,      \* the sorted names
    output,     \* the rendered sections
    \* render_option on one option
    rname,      \* the option's name
    ropt,       \* the OptionDef
    ropts,      \* the RenderOptions
    rpc,        \* position in render_option
    rendered,   \* the section render_option returned
    \* a default or example value
    json,       \* the JSON value of an option's default field (Option)
    vpc,        \* position in the parse and the rendering of the value
    parsed,     \* what deserializing Option<OptionValue> gave
    value_text, \* format_option_value's result (Option<text>)
    \* a run of main
    cmd,        \* the command of the command line
    input,      \* the options JSON, or the parse of the module with the export list
    target,     \* where the Options command writes
    mpc,        \* position in main
    calls,      \* the functions main has called so far
    loaded,     \* the OptionsMap, or the module's root
    result,     \* the document rendered
    written,    \* what was written to the target (Option)
    status,     \* how the process ended
    \* title and identifier of an entry
    entry,      \* a ManualEntry
    tpc,
    ident_title \* get_ident_title's result: <<ident, title>>

fmtVars == <<fdoc, flegacy, fshift, fshift2, fpc, fout, fout1, fout2, fsum>>
legVars == <<raw, lines, state, doc_str, type_str, example_str, lpc, comment>>
colVars == <<root, export, cpc, entries>>
optVars == <<options, keys, opc, names, output>>
ttlVars == <<entry, tpc, ident_title>>
runVars == <<cmd, input, target, mpc, calls, loaded, result, written, status>>
valVars == <<json, vpc, parsed, value_text>>
rndVars == <<rname, ropt, ropts, rpc, rendered>>

vars == <<fmtVars, legVars, colVars, optVars, ttlVars, rndVars, valVars, runVars>>

----------------------------------------------------------------------------
(* Options and small arithmetic.                                           *)

None == <<>>
Some(x) == <<x>>
IsSome(o) == o # <<>>
UnwrapOr(o, d) == IF o = <<>> THEN d ELSE o[1]

Min(a, b) == IF a <= b THEN a ELSE b

SetMin(S) ==
    LET x == CHOOSE y \in S : \A z \in S : y <= z
    IN  x

Drop(s, n) == SubSeq(s, n + 1, Len(s))
Take(s, n) == SubSeq(s, 1, n)

RECURSIVE SeqsUpTo(_, _)
SeqsUpTo(S, n) ==
    IF n = 0 THEN {<<>>}
    ELSE LET shorter == SeqsUpTo(S, n - 1)
         IN  shorter \cup {Append(s, x) : s \in shorter, x \in S}

RECURSIVE Concat(_)
Concat(ss) == IF ss = <<>> THEN <<>> ELSE Head(ss) \o Concat(Tail(ss))

----------------------------------------------------------------------------
(* The str methods the code uses, on sequences of characters.              *)

IsWhitespace(c) == c \in {" ", "\n", "\t"}

RECURSIVE LeadingWs(_)
LeadingWs(s) ==
    IF s = <<>> \/ ~IsWhitespace(Head(s)) THEN 0 ELSE 1 + LeadingWs(Tail(s))

RECURSIVE TrailingWs(_)
TrailingWs(s) ==
    IF s = <<>> \/ ~IsWhitespace(s[Len(s)]) THEN 0
    ELSE 1 + TrailingWs(Take(s, Len(s) - 1))

trim_start(s) == Drop(s, LeadingWs(s))
trim_end(s) == Take(s, Len(s) - TrailingWs(s))
trim(s) == trim_end(trim_start(s))

starts_with(s, p) == Len(s) >= Len(p) /\ Take(s, Len(p)) = p
strip_prefix(s, p) == IF starts_with(s, p) THEN Some(Drop(s, Len(p))) ELSE None

\* the index of the first c in s, 0 when there is none
RECURSIVE Find(_, _)
Find(s, c) ==
    IF s = <<>> THEN 0
    ELSE IF Head(s) = c THEN 1
    ELSE LET r == Find(Tail(s), c) IN IF r = 0 THEN 0 ELSE r + 1

\* str::split(c): "a\n" gives <<"a", "">>, "" gives <<"">>
RECURSIVE split(_, _)
split(s, c) ==
    LET i == Find(s, c)
    IN  IF i = 0 THEN <<s>> ELSE <<Take(s, i - 1)>> \o split(Drop(s, i), c)

\* str::split_inclusive('\n'): every piece keeps its terminator, "" gives <<>>
RECURSIVE split_inclusive(_)
split_inclusive(s) ==
    LET i == Find(s, "\n")
    IN  IF s = <<>> THEN <<>>
        ELSE IF i = 0 THEN <<s>>
        ELSE <<Take(s, i)>> \o split_inclusive(Drop(s, i))

RECURSIVE join(_, _)
join(ps, c) ==
    IF ps = <<>> THEN <<>>
    ELSE IF Len(ps) = 1 THEN ps[1]
    ELSE ps[1] \o <<c>> \o join(Tail(ps), c)

RECURSIVE replace(_, _, _)
replace(s, c, by) ==
    IF s = <<>> THEN <<>>
    ELSE (IF Head(s) = c THEN by ELSE <<Head(s)>>) \o replace(Tail(s), c, by)

RECURSIVE Repeat(_, _)
Repeat(c, n) == IF n = 0 THEN <<>> ELSE <<c>> \o Repeat(c, n - 1)

----------------------------------------------------------------------------
(* Text normalizer (format.rs, not among the source files: modelled from   *)
(* the specification, section 4.3 and the examples of section 8).          *)

IsBlank(l) == \A i \in 1..Len(l) : IsWhitespace(l[i])

\* the minimum leading-whitespace width across the non-blank lines
MinIndent(ls) ==
    LET nb == {i \in 1..Len(ls) : ~IsBlank(ls[i])}
    IN  IF nb = {} THEN 0 ELSE SetMin({LeadingWs(ls[i]) : i \in nb})

\* Indentation stripping: the first line is exempt from the minimum and
\* starts flush; every subsequent line loses the common indentation; a
\* single trailing blank line is trimmed; an empty result is absence.
handle_indentation(text) ==
    LET ls == split(text, "\n")
        first == trim_start(ls[1])
        rest == Tail(ls)
        m == MinIndent(rest)
        stripped == [i \in 1..Len(rest) |->
                        Drop(rest[i], Min(m, LeadingWs(rest[i])))]
        all == <<first>> \o stripped
        cut == IF Len(all) > 1 /\ IsBlank(all[Len(all)])
               THEN Take(all, Len(all) - 1) ELSE all
        res == join(cut, "\n")
    IN  IF res = <<>> THEN None ELSE Some(res)

\* an ATX heading line gets offset more # characters
handle_heading(line, offset) ==
    IF line # <<>> /\ Head(line) = "#" THEN Repeat("#", offset) \o line ELSE line

\* Heading shift: every line beginning with # is rewritten, no clamping
shift_headings(text, offset) ==
    LET ls == split_inclusive(text)
    IN  Concat([i \in 1..Len(ls) |-> handle_heading(ls[i], offset)])

----------------------------------------------------------------------------
(* Comment retrieval and the FileDoc command (main.rs).                    *)

\* retrieve_doc_comment: doc is get_expr_docs(node), an Option<text>
retrieve_doc_comment(doc, shift_headings_by) ==
    IF doc = None THEN None
    ELSE Some(shift_headings(UnwrapOr(handle_indentation(doc[1]), <<>>),
                             UnwrapOr(shift_headings_by, 2)))

\* extract_file_doc on the root's first child: doc and legacy are what
\* get_expr_docs and retrieve_legacy_comment find on it
extract_file_doc(doc, legacy) ==
    LET found == IF retrieve_doc_comment(doc, Some(0)) # None
                 THEN retrieve_doc_comment(doc, Some(0)) ELSE legacy
    IN  IF found = None THEN None ELSE handle_indentation(found[1])

\* FileDocShift with the guard off by one: a shift of 1 is skipped
FileDocShift_SkipsOne(doc, shift_amount) ==
    IF doc = None THEN None
    ELSE IF shift_amount > 1 THEN Some(shift_headings(doc[1], shift_amount))
    ELSE Some(doc[1])

\* the shift of the FileDoc command: doc.map(|d| if shift_amount > 0 ...)
FileDocShift(doc, shift_amount) ==
    IF doc = None THEN None
    ELSE IF shift_amount > 0 THEN Some(shift_headings(doc[1], shift_amount))
    ELSE Some(doc[1])

----------------------------------------------------------------------------
(* The legacy comment scanner: parse_doc_comment (main.rs).                *)

TypeMarker == <<"T", "y", "p", "e", ":">>
ExampleMarker == <<"E", "x", "a", "m", "p", "l", "e", ":">>

\* the scanner before the first line
ScanStart ==
    [state |-> "Doc", doc_str |-> <<>>, type_str |-> <<>>, example_str |-> <<>>]

\* ScanLine looking for the markers in the line as it is, not trimmed
ScanLine_NoTrim(s, line) ==
    LET t == strip_prefix(line, TypeMarker)
        e == strip_prefix(line, ExampleMarker)
    IN  IF t # None
        THEN [s EXCEPT !.state = "Type",
                       !.type_str = @ \o trim(t[1]) \o <<"\n">>]
        ELSE IF e # None
        THEN [s EXCEPT !.state = "Example",
                       !.example_str = @ \o trim(e[1]) \o <<"\n">>]
        ELSE CASE s.state = "Doc" -> [s EXCEPT !.doc_str = @ \o line]
               [] s.state = "Type" -> [s EXCEPT !.type_str = @ \o line]
               [] s.state = "Example" -> [s EXCEPT !.example_str = @ \o line]

\* ScanLine where a Type: line adds its text but leaves the state alone
ScanLine_NoSwitch(s, line) ==
    LET trimmed_line == trim(line)
        t == strip_prefix(trimmed_line, TypeMarker)
        e == strip_prefix(trimmed_line, ExampleMarker)
    IN  IF t # None
        THEN [s EXCEPT !.type_str = @ \o t[1] \o <<"\n">>]
        ELSE IF e # None
        THEN [s EXCEPT !.state = "Example",
                       !.example_str = @ \o e[1] \o <<"\n">>]
        ELSE CASE s.state = "Doc" -> [s EXCEPT !.doc_str = @ \o line]
               [] s.state = "Type" -> [s EXCEPT !.type_str = @ \o line]
               [] s.state = "Example" -> [s EXCEPT !.example_str = @ \o line]

\* ScanLine where a line after a marker is added to the documentation too
ScanLine_AlsoDoc(s, line) ==
    LET trimmed_line == trim(line)
        t == strip_prefix(trimmed_line, TypeMarker)
        e == strip_prefix(trimmed_line, ExampleMarker)
    IN  IF t # None
        THEN [s EXCEPT !.state = "Type",
                       !.type_str = @ \o t[1] \o <<"\n">>]
        ELSE IF e # None
        THEN [s EXCEPT !.state = "Example",
                       !.example_str = @ \o e[1] \o <<"\n">>]
        ELSE CASE s.state = "Doc" -> [s EXCEPT !.doc_str = @ \o line]
               [] s.state = "Type" ->
                     [s EXCEPT !.type_str = @ \o line, !.doc_str = @ \o line]
               [] s.state = "Example" ->
                     [s EXCEPT !.example_str = @ \o line, !.doc_str = @ \o line]

\* one iteration of the loop over raw.split_inclusive('\n')
ScanLine(s, line) ==
    LET trimmed_line == trim(line)
        t == strip_prefix(trimmed_line, TypeMarker)
        e == strip_prefix(trimmed_line, ExampleMarker)
    IN  IF t # None
        THEN [s EXCEPT !.state = "Type",
                       !.type_str = @ \o t[1] \o <<"\n">>]
        ELSE IF e # None
        THEN [s EXCEPT !.state = "Example",
                       !.example_str = @ \o e[1] \o <<"\n">>]
        ELSE CASE s.state = "Doc" -> [s EXCEPT !.doc_str = @ \o line]
               [] s.state = "Type" -> [s EXCEPT !.type_str = @ \o line]
               [] s.state = "Example" -> [s EXCEPT !.example_str = @ \o line]

\* MakeDocComment that keeps an empty type or example as an empty text
MakeDocComment_KeepEmpty(s) ==
    [doc |-> UnwrapOr(handle_indentation(s.doc_str), <<>>),
     doc_type |-> Some(UnwrapOr(handle_indentation(s.type_str), <<>>)),
     example |-> Some(UnwrapOr(handle_indentation(s.example_str), <<>>))]

\* the DocComment built from the three buffers
MakeDocComment(s) ==
    [doc |-> UnwrapOr(handle_indentation(s.doc_str), <<>>),
     doc_type |-> handle_indentation(s.type_str),
     example |-> handle_indentation(s.example_str)]

RECURSIVE ScanAll(_, _)
ScanAll(s, ls) == IF ls = <<>> THEN s ELSE ScanAll(ScanLine(s, Head(ls)), Tail(ls))

parse_doc_comment(text) == MakeDocComment(ScanAll(ScanStart, split_inclusive(text)))

----------------------------------------------------------------------------
(* The syntax tree the resolver consumes (rnix).  A node is a record with  *)
(* a kind; a binding carries what get_expr_docs and                        *)
(* retrieve_legacy_comment find above it.                                  *)

Lit == [kind |-> "lit"]
Ident(n) == [kind |-> "ident", name |-> n]
IdentParam(n) == [kind |-> "identparam", name |-> n]
Pattern(ds) == [kind |-> "pattern", defaults |-> ds]
Lambda(p, b) == [kind |-> "lambda", param |-> p, body |-> b]
AttrSet(cs) == [kind |-> "attrset", children |-> cs]
LetIn(es, b) == [kind |-> "letin", entries |-> es, body |-> b]
AttrpathValue(n, d, l, v) ==
    [kind |-> "apv", name |-> n, doc |-> d, legacy |-> l, value |-> v]
Inherit(f, as) == [kind |-> "inherit", from |-> f, attrs |-> as]
AttrIdent(n) == [kind |-> "attr_ident", name |-> n]
AttrStr(n) == [kind |-> "attr_str", name |-> n]
Root(e) == [kind |-> "root", expr |-> e]

\* SyntaxNode::children, in document order
Children(n) ==
    CASE n.kind = "root" -> <<n.expr>>
      [] n.kind = "lambda" -> <<n.param, n.body>>
      [] n.kind = "pattern" -> n.defaults
      [] n.kind = "letin" -> n.entries \o <<n.body>>
      [] n.kind = "attrset" -> n.children
      [] n.kind = "apv" -> <<n.value>>
      [] n.kind = "inherit" -> n.from
      [] OTHER -> <<>>

\* the nodes a pre-order walk enters; with skip, the subtree of a
\* NODE_PATTERN is not entered (preorder.skip_subtree())
RECURSIVE PreorderAll(_, _)
PreorderAll(ns, skip) ==
    IF ns = <<>> THEN <<>>
    ELSE LET n == Head(ns)
             below == IF skip /\ n.kind = "pattern" THEN <<>> ELSE Children(n)
         IN  <<n>> \o PreorderAll(below \o Tail(ns), skip)
\* Preorder that enters the patterns as well
Preorder_EnterPatterns(n, skip) == PreorderAll(<<n>>, FALSE)

Preorder(n, skip) == PreorderAll(<<n>>, skip)

\* the first node of the walk whose kind is one of kinds
RECURSIVE FirstOfKind(_, _)
FirstOfKind(ns, kinds) ==
    IF ns = <<>> THEN None
    ELSE IF Head(ns).kind \in kinds THEN Some(Head(ns))
    ELSE FirstOfKind(Tail(ns), kinds)

----------------------------------------------------------------------------
(* Comment extraction per binding (main.rs) and the entry built from it    *)
(* (legacy.rs, not among the source files: modelled from the               *)
(* specification, sections 3 and 4.2).                                     *)

\* retrieve_doc_item with the legacy comment consulted first
retrieve_doc_item_LegacyFirst(node) ==
    IF node.legacy # None
    THEN Some([variant |-> "LegacyDocItem", name |-> node.name,
               comment |-> parse_doc_comment(node.legacy[1]),
               args |-> <<>>])
    ELSE IF retrieve_doc_comment(node.doc, Some(2)) = None THEN None
    ELSE Some([variant |-> "DocItem", name |-> node.name,
               comment |-> [doc |-> retrieve_doc_comment(node.doc, Some(2))[1],
                            doc_type |-> None, example |-> None],
               args |-> <<>>])

retrieve_doc_item(node) ==
    LET item_name == node.name
        doc_comment == retrieve_doc_comment(node.doc, Some(2))
    IN  IF doc_comment # None
        THEN Some([variant |-> "DocItem", name |-> item_name,
                   comment |-> [doc |-> doc_comment[1],
                                doc_type |-> None, example |-> None],
                   args |-> <<>>])
        ELSE IF node.legacy = None THEN None
        ELSE Some([variant |-> "LegacyDocItem", name |-> item_name,
                   comment |-> parse_doc_comment(node.legacy[1]),
                   args |-> <<>>])

\* the parameters of the leading chain of curried lambdas
RECURSIVE collect_lambda_args_legacy(_)
collect_lambda_args_legacy(l) ==
    IF l.kind # "lambda" THEN <<>>
    ELSE <<l.param>> \o collect_lambda_args_legacy(l.body)

LegacyDocItem(name, cmt, args) == [name |-> name, comment |-> cmt, args |-> args]

\* collect_entry_information that collects the parameters for structured
\* comments as well
collect_entry_information_AlwaysArgs(apv) ==
    IF retrieve_doc_item(apv) = None THEN None
    ELSE Some(LegacyDocItem(retrieve_doc_item(apv)[1].name,
                            retrieve_doc_item(apv)[1].comment,
                            collect_lambda_args_legacy(apv.value)))

collect_entry_information(apv) ==
    LET with_args(doc_item) ==
            IF doc_item = None THEN None
            ELSE IF doc_item[1].variant = "LegacyDocItem"
                    /\ apv.value.kind = "lambda"
            THEN Some(LegacyDocItem(doc_item[1].name, doc_item[1].comment,
                                    collect_lambda_args_legacy(apv.value)))
            ELSE IF doc_item[1].variant = "LegacyDocItem"
            THEN Some(LegacyDocItem(doc_item[1].name, doc_item[1].comment,
                                    doc_item[1].args))
            ELSE Some(LegacyDocItem(doc_item[1].name, doc_item[1].comment, <<>>))
    IN  with_args(retrieve_doc_item(apv))

\* HashMap::get
Get(map, k) == IF k \in DOMAIN map THEN Some(map[k]) ELSE None

\* the ManualEntry of a documented binding
into_entry(di, prefix, category, locs) ==
    [args |-> di.args,
     category |-> category,
     location |-> Get(locs, di.name),
     description |-> di.comment.doc,
     example |-> di.comment.example,
     fn_type |-> di.comment.doc_type,
     name |-> di.name,
     prefix |-> prefix]

----------------------------------------------------------------------------
(* The scope resolver: collect_bindings, resolve_let_ident,                *)
(* collect_entries (main.rs).                                              *)

EmptyMap == <<>>

\* InheritEntries that looks up a quoted attribute name like an identifier
RECURSIVE InheritEntries_AnyAttr(_, _)
InheritEntries_AnyAttr(attrs, scope) ==
    IF attrs = <<>> THEN <<>>
    ELSE Get(scope, Head(attrs).name)
         \o InheritEntries_AnyAttr(Tail(attrs), scope)

\* the entries a bare inherit clause takes from the scope
RECURSIVE InheritEntries(_, _)
InheritEntries(attrs, scope) ==
    IF attrs = <<>> THEN <<>>
    ELSE (IF Head(attrs).kind = "attr_ident"
          THEN Get(scope, Head(attrs).name) ELSE None)
         \o InheritEntries(Tail(attrs), scope)

\* the entry of a binding, if it is documented
EntryOf(di, prefix, category, locs) ==
    IF di = None THEN <<>> ELSE <<into_entry(di[1], prefix, category, locs)>>

\* ChildEntries that also takes the bindings of nested attribute sets
RECURSIVE ChildEntries_Deep(_, _, _, _, _)
ChildEntries_Deep(cs, prefix, category, locs, scope) ==
    IF cs = <<>> THEN <<>>
    ELSE (IF Head(cs).kind = "apv"
          THEN EntryOf(collect_entry_information(Head(cs)),
                       prefix, category, locs)
               \o (IF Head(cs).value.kind = "attrset"
                   THEN ChildEntries_Deep(Head(cs).value.children,
                                          prefix, category, locs, scope)
                   ELSE <<>>)
          ELSE IF Head(cs).from # None THEN <<>>
          ELSE InheritEntries(Head(cs).attrs, scope))
         \o ChildEntries_Deep(Tail(cs), prefix, category, locs, scope)

\* the loop over the children of the attribute set
RECURSIVE ChildEntries(_, _, _, _, _)
ChildEntries(cs, prefix, category, locs, scope) ==
    IF cs = <<>> THEN <<>>
    ELSE (IF Head(cs).kind = "apv"
          THEN EntryOf(collect_entry_information(Head(cs)),
                       prefix, category, locs)
          ELSE IF Head(cs).kind = "inherit"
          THEN IF Head(cs).from # None THEN <<>>
               ELSE InheritEntries(Head(cs).attrs, scope)
          ELSE <<>>)
         \o ChildEntries(Tail(cs), prefix, category, locs, scope)

\* the bindings of the first attribute set below node
BindingsOf(found, prefix, category, locs, scope) ==
    IF found = None THEN <<>>
    ELSE ChildEntries(found[1].children, prefix, category, locs, scope)

\* collect_bindings that looks at node alone, not below it
collect_bindings_NodeOnly(node, prefix, category, locs, scope) ==
    IF node.kind = "attrset"
    THEN ChildEntries(node.children, prefix, category, locs, scope)
    ELSE <<>>

collect_bindings(node, prefix, category, locs, scope) ==
    BindingsOf(FirstOfKind(Preorder(node, FALSE), {"attrset"}),
               prefix, category, locs, scope)

\* the first binding of the let block with that name
RECURSIVE find_let_binding(_, _)
find_let_binding(es, name) ==
    IF es = <<>> THEN None
    ELSE IF Head(es).kind = "apv" /\ Head(es).name = name THEN Some(Head(es))
    ELSE find_let_binding(Tail(es), name)

\* FollowBinding that takes the value of the first binding, identifier or not
FollowBinding_OneStep(let_in, apv, depth) ==
    IF apv = None THEN [tag |-> "None"]
    ELSE [tag |-> "Some", node |-> apv[1].value]

\* resolve_let_ident follows identifiers without a bound of its own; a
\* chain longer than the let block has bindings has come back to a name it
\* has seen and recurses until the stack overflows
RECURSIVE resolve_let_ident(_, _, _)
RECURSIVE FollowBinding(_, _, _)
FollowBinding(let_in, apv, depth) ==
    IF apv = None THEN [tag |-> "None"]
    ELSE IF apv[1].value.kind = "ident"
    THEN IF depth >= Len(let_in.entries) THEN [tag |-> "Overflow"]
         ELSE resolve_let_ident(let_in, apv[1].value, depth + 1)
    ELSE [tag |-> "Some", node |-> apv[1].value]
resolve_let_ident(let_in, ident, depth) ==
    FollowBinding(let_in, find_let_binding(let_in.entries, ident.name), depth)

\* HashMap::insert
Insert(map, k, v) ==
    [x \in DOMAIN map \cup {k} |-> IF x = k THEN v ELSE map[x]]

\* the scope with the entry of a documented binding put into it
InsertEntry(map, di, prefix, category, locs) ==
    IF di = None THEN map
    ELSE Insert(map, di[1].name, into_entry(di[1], prefix, category, locs))

\* BuildScope where the first binding of a name is kept, not the last
RECURSIVE BuildScope_FirstWins(_, _, _, _)
BuildScope_FirstWins(es, prefix, category, locs) ==
    IF es = <<>> THEN EmptyMap
    ELSE IF Head(es).kind # "apv"
    THEN BuildScope_FirstWins(Tail(es), prefix, category, locs)
    ELSE InsertEntry(BuildScope_FirstWins(Tail(es), prefix, category, locs),
                     collect_entry_information(Head(es)),
                     prefix, category, locs)

\* the HashMap collected from the documented bindings of the let block:
\* a later binding replaces an earlier one of the same name
RECURSIVE BuildScope(_, _, _, _)
BuildScope(es, prefix, category, locs) ==
    IF es = <<>> THEN EmptyMap
    ELSE IF es[Len(es)].kind # "apv"
    THEN BuildScope(Take(es, Len(es) - 1), prefix, category, locs)
    ELSE InsertEntry(BuildScope(Take(es, Len(es) - 1), prefix, category, locs),
                     collect_entry_information(es[Len(es)]),
                     prefix, category, locs)

\* exports.iter().filter_map(|name| scope.get(name).cloned()).collect()
RECURSIVE ExportEntries(_, _)
ExportEntries(exports, scope) ==
    IF exports = <<>> THEN <<>>
    ELSE Get(scope, Head(exports)) \o ExportEntries(Tail(exports), scope)

Ok(es) == [tag |-> "Ok", entries |-> es]
StackOverflow == [tag |-> "Overflow"]

\* the let-in branch with the export list looked at after the body
LetInEntries_BodyFirst(let_in, scope, resolved, prefix, category, locs, exports) ==
    IF let_in.body.kind = "ident" /\ resolved.tag = "Overflow"
    THEN StackOverflow
    ELSE IF let_in.body.kind = "ident" /\ resolved.tag = "Some"
    THEN Ok(collect_bindings(resolved.node, prefix, category, locs, scope))
    ELSE IF exports # None
            /\ collect_bindings(let_in.body, prefix, category, locs, scope) = <<>>
    THEN Ok(ExportEntries(exports[1], scope))
    ELSE Ok(collect_bindings(let_in.body, prefix, category, locs, scope))

\* the let-in branch of collect_entries
LetInEntries(let_in, scope, resolved, prefix, category, locs, exports) ==
    IF exports # None
    THEN Ok(ExportEntries(exports[1], scope))
    ELSE IF let_in.body.kind = "ident" /\ resolved.tag = "Overflow"
    THEN StackOverflow
    ELSE IF let_in.body.kind = "ident" /\ resolved.tag = "Some"
    THEN Ok(collect_bindings(resolved.node, prefix, category, locs, scope))
    ELSE Ok(collect_bindings(let_in.body, prefix, category, locs, scope))

\* what collect_entries does with the first let-in or attribute set
FirstScopeEntries(first, prefix, category, locs, exports) ==
    IF first = None THEN Ok(<<>>)
    ELSE IF first[1].kind = "letin"
    THEN LetInEntries(first[1],
                      BuildScope(first[1].entries, prefix, category, locs),
                      resolve_let_ident(first[1], first[1].body, 0),
                      prefix, category, locs, exports)
    ELSE Ok(collect_bindings(first[1], prefix, category, locs, EmptyMap))

collect_entries(r, prefix, category, locs, exports) ==
    FirstScopeEntries(FirstOfKind(Preorder(r, TRUE), {"letin", "attrset"}),
                      prefix, category, locs, exports)

----------------------------------------------------------------------------
(* The option document renderer (options.rs).                              *)

\* the grave accent (a TLA+ string cannot hold the character)
Backtick == "BACKTICK"

\* the bytes of the characters option names are written with
Byte(c) ==
    CASE c = "-" -> 45 [] c = "." -> 46 [] c = "F" -> 70 [] c = "Z" -> 90
      [] c = "a" -> 97 [] c = "b" -> 98 [] c = "c" -> 99 [] c = "d" -> 100
      [] c = "e" -> 101 [] c = "g" -> 103 [] c = "k" -> 107 [] c = "l" -> 108
      [] c = "n" -> 110 [] c = "o" -> 111 [] c = "p" -> 112 [] c = "r" -> 114
      [] c = "s" -> 115 [] c = "t" -> 116 [] c = "v" -> 118

\* Ord::cmp on integers
cmp(x, y) == IF x < y THEN "Less" ELSE IF x > y THEN "Greater" ELSE "Equal"

\* Ord::cmp on str: byte by byte, a proper prefix is less
RECURSIVE str_cmp(_, _)
str_cmp(a, b) ==
    IF a = <<>> \/ b = <<>> THEN cmp(Len(a), Len(b))
    ELSE IF Byte(Head(a)) # Byte(Head(b)) THEN cmp(Byte(Head(a)), Byte(Head(b)))
    ELSE str_cmp(Tail(a), Tail(b))

EnablePrefix == <<"e", "n", "a", "b", "l", "e">>
PackagePrefix == <<"p", "a", "c", "k", "a", "g", "e">>

\* segment_priority with the two buckets exchanged
segment_priority_PackageFirst(segment) ==
    IF starts_with(segment, PackagePrefix) THEN 0
    ELSE IF starts_with(segment, EnablePrefix) THEN 1
    ELSE 2

segment_priority(segment) ==
    IF starts_with(segment, EnablePrefix) THEN 0
    ELSE IF starts_with(segment, PackagePrefix) THEN 1
    ELSE 2

\* the loop over a_parts.iter().zip(b_parts.iter()): the first comparison
\* that is not Equal, Equal when the zip is exhausted
RECURSIVE ZipCompare(_, _)
ZipCompare(a_parts, b_parts) ==
    IF a_parts = <<>> \/ b_parts = <<>> THEN "Equal"
    ELSE IF segment_priority(Head(a_parts)) # segment_priority(Head(b_parts))
    THEN cmp(segment_priority(Head(a_parts)), segment_priority(Head(b_parts)))
    ELSE IF str_cmp(Head(a_parts), Head(b_parts)) # "Equal"
    THEN str_cmp(Head(a_parts), Head(b_parts))
    ELSE ZipCompare(Tail(a_parts), Tail(b_parts))

\* compare_option_names without the comparison of the lengths
compare_option_names_NoLength(a, b) ==
    ZipCompare(split(a, "."), split(b, "."))

compare_option_names(a, b) ==
    IF ZipCompare(split(a, "."), split(b, ".")) # "Equal"
    THEN ZipCompare(split(a, "."), split(b, "."))
    ELSE cmp(Len(split(a, ".")), Len(split(b, ".")))

\* one step of a stable sort: x goes behind the elements that are not greater
RECURSIVE InsertSorted(_, _)
InsertSorted(sorted, x) ==
    IF sorted = <<>> THEN <<x>>
    ELSE IF compare_option_names(x, Head(sorted)) = "Less" THEN <<x>> \o sorted
    ELSE <<Head(sorted)>> \o InsertSorted(Tail(sorted), x)

\* names.sort_by(|a, b| compare_option_names(a, b))
RECURSIVE sort_by(_)
sort_by(s) ==
    IF s = <<>> THEN <<>>
    ELSE InsertSorted(sort_by(Take(s, Len(s) - 1)), s[Len(s)])

contains(s, c) == Find(s, c) # 0

\* str::trim_end_matches(c)
RECURSIVE trim_end_matches(_, _)
trim_end_matches(s, c) ==
    IF s # <<>> /\ s[Len(s)] = c THEN trim_end_matches(Take(s, Len(s) - 1), c)
    ELSE s

md_escape(text) ==
    replace(replace(replace(replace(replace(replace(replace(replace(text,
        "\\", <<"\\", "\\">>), "*", <<"\\", "*">>), "_", <<"\\", "_">>), "[", <<"\\", "[">>),
        "]", <<"\\", "]">>), "<", <<"\\", "<">>), ">", <<"\\", ">">>), Backtick, <<"\\", Backtick>>)

\* Display of a number
RECURSIVE to_string(_)
to_string(n) ==
    IF n < 10 THEN <<CASE n = 0 -> "0" [] n = 1 -> "1" [] n = 2 -> "2"
                       [] n = 3 -> "3" [] n = 4 -> "4" [] n = 5 -> "5"
                       [] n = 6 -> "6" [] n = 7 -> "7" [] n = 8 -> "8"
                       [] n = 9 -> "9">>
    ELSE to_string(n \div 10) \o to_string(n % 10)

\* the values of OptionValue and of the JSON items of an array
Tagged(value_type, text) ==
    [variant |-> "Tagged", value_type |-> value_type, text |-> text]
String(s) == [variant |-> "String", s |-> s]
Bool(b) == [variant |-> "Bool", b |-> b]
Number(n) == [variant |-> "Number", n |-> n]
Array(arr) == [variant |-> "Array", arr |-> arr]
Object == [variant |-> "Object"]
Null == [variant |-> "Null"]

LiteralExpression == <<"l", "i", "t", "e", "r", "a", "l", "E", "x", "p", "r", "e", "s", "s", "i", "o", "n">>
LiteralMD == <<"l", "i", "t", "e", "r", "a", "l", "M", "D">>

\* a JSON object with fields (serde_json::Map); Object above is what is
\* left of it in OptionValue::Object, whose content is never read
Map(fields) == [variant |-> "Object", fields |-> fields]

\* serde_json::to_string of an item of an array (the items of the model
\* are scalars, null, arrays of these and the empty object)
RECURSIVE json_to_string(_)
json_to_string(v) ==
    CASE v.variant = "String" -> <<"\"">> \o v.s \o <<"\"">>
      [] v.variant = "Bool" -> IF v.b THEN <<"t", "r", "u", "e">> ELSE <<"f", "a", "l", "s", "e">>
      [] v.variant = "Number" -> to_string(v.n)
      [] v.variant = "Null" -> <<"n", "u", "l", "l">>
      [] v.variant = "Array" ->
            <<"[">> \o join([i \in 1..Len(v.arr) |-> json_to_string(v.arr[i])], ",")
            \o <<"]">>
      [] OTHER -> <<"{", "}">>

\* TaggedValue's derived Deserialize, on the buffered content of an
\* untagged enum: a struct is read from a map (_type a string; text a
\* string, null or missing; other keys ignored) or from a sequence of
\* exactly its two fields in order; None is a deserialization error
deserialize_TaggedValue(j) ==
    IF j.variant = "Object" /\ "fields" \in DOMAIN j
    THEN IF /\ "_type" \in DOMAIN j.fields
            /\ j.fields["_type"].variant = "String"
            /\ "text" \in DOMAIN j.fields => j.fields["text"].variant \in {"String", "Null"}
         THEN Some(Tagged(j.fields["_type"].s,
                          IF "text" \in DOMAIN j.fields /\ j.fields["text"].variant = "String"
                          THEN Some(j.fields["text"].s) ELSE None))
         ELSE None
    ELSE IF j.variant = "Array"
    THEN IF /\ Len(j.arr) = 2
            /\ j.arr[1].variant = "String"
            /\ j.arr[2].variant \in {"String", "Null"}
         THEN Some(Tagged(j.arr[1].s,
                          IF j.arr[2].variant = "String" THEN Some(j.arr[2].s) ELSE None))
         ELSE None
    ELSE None

\* OptionValue's derived Deserialize (untagged): the variants are tried in
\* the order of their declaration and the first that succeeds is taken
deserialize_OptionValue(j) ==
    IF deserialize_TaggedValue(j) # None THEN deserialize_TaggedValue(j)[1]
    ELSE CASE j.variant = "String" -> String(j.s)
           [] j.variant = "Bool" -> Bool(j.b)
           [] j.variant = "Number" -> Number(j.n)
           [] j.variant = "Array" -> Array(j.arr)
           [] j.variant = "Object" -> Object
           [] j.variant = "Null" -> Null

\* the fields default and example, Option<OptionValue> with serde(default):
\* a missing field and a JSON null are both None
deserialize_Option(field) ==
    IF field = None \/ field[1].variant = "Null" THEN None
    ELSE Some(deserialize_OptionValue(field[1]))

\* format_option_value without the fenced block for multi-line expressions
format_option_value_NoFence(value) ==
    CASE value.variant = "Tagged" ->
            (IF value.value_type = LiteralExpression
             THEN IF value.text = None THEN <<Backtick, ".", ".", ".", Backtick>>
                  ELSE <<Backtick>> \o value.text[1] \o <<Backtick>>
             ELSE IF value.value_type = LiteralMD
             THEN UnwrapOr(value.text, <<>>)
             ELSE <<Backtick, "<">> \o value.value_type \o <<">", ":", " ">>
                  \o UnwrapOr(value.text, <<".", ".", ".">>) \o <<Backtick>>)
      [] value.variant = "String" -> <<Backtick, "\"">> \o value.s \o <<"\"", Backtick>>
      [] value.variant = "Bool" ->
            <<Backtick>> \o (IF value.b THEN <<"t", "r", "u", "e">> ELSE <<"f", "a", "l", "s", "e">>) \o <<Backtick>>
      [] value.variant = "Number" -> <<Backtick>> \o to_string(value.n) \o <<Backtick>>
      [] value.variant = "Array" ->
            (IF value.arr = <<>> THEN <<Backtick, "[", " ", "]", Backtick>>
             ELSE <<Backtick, "[", " ">>
                  \o join([i \in 1..Len(value.arr) |->
                              json_to_string(value.arr[i])], " ")
                  \o <<" ", "]", Backtick>>)
      [] value.variant = "Object" -> <<Backtick, "{", " ", ".", ".", ".", " ", "}", Backtick>>
      [] value.variant = "Null" -> <<Backtick, "n", "u", "l", "l", Backtick>>

format_option_value(value) ==
    CASE value.variant = "Tagged" ->
            (IF value.value_type = LiteralExpression
             THEN IF value.text = None THEN <<Backtick, ".", ".", ".", Backtick>>
                  ELSE IF contains(value.text[1], "\n")
                  THEN <<Backtick, Backtick, Backtick, "n", "i", "x", "\n">> \o value.text[1] \o <<"\n", Backtick, Backtick, Backtick>>
                  ELSE <<Backtick>> \o value.text[1] \o <<Backtick>>
             ELSE IF value.value_type = LiteralMD
             THEN UnwrapOr(value.text, <<>>)
             ELSE <<Backtick, "<">> \o value.value_type \o <<">", ":", " ">>
                  \o UnwrapOr(value.text, <<".", ".", ".">>) \o <<Backtick>>)
      [] value.variant = "String" -> <<Backtick, "\"">> \o value.s \o <<"\"", Backtick>>
      [] value.variant = "Bool" ->
            <<Backtick>> \o (IF value.b THEN <<"t", "r", "u", "e">> ELSE <<"f", "a", "l", "s", "e">>) \o <<Backtick>>
      [] value.variant = "Number" -> <<Backtick>> \o to_string(value.n) \o <<Backtick>>
      [] value.variant = "Array" ->
            (IF value.arr = <<>> THEN <<Backtick, "[", " ", "]", Backtick>>
             ELSE <<Backtick, "[", " ">>
                  \o join([i \in 1..Len(value.arr) |->
                              json_to_string(value.arr[i])], " ")
                  \o <<" ", "]", Backtick>>)
      [] value.variant = "Object" -> <<Backtick, "{", " ", ".", ".", ".", " ", "}", Backtick>>
      [] value.variant = "Null" -> <<Backtick, "n", "u", "l", "l", Backtick>>

make_anchor_id(name, prefix) ==
    prefix \o replace(replace(replace(replace(name,
        ".", <<"-">>), "<", <<"_">>), ">", <<"_">>), "*", <<"_">>)

\* Description and DeclarationLoc
Plain(s) == [variant |-> "Plain", text |-> s]
MdDoc(s) == [variant |-> "MdDoc", text |-> s]
as_str(desc) == desc.text
Path(p) == [variant |-> "Path", name |-> p, url |-> None]
Named(n, u) == [variant |-> "Named", name |-> n, url |-> u]

\* Result<T, String> of the deserializers
Good(v) == [ok |-> TRUE, v |-> v]
Bad == [ok |-> FALSE]

IsJsonObject(j) == j.variant = "Object" /\ "fields" \in DOMAIN j
FieldOf(j, k) == IF k \in DOMAIN j.fields THEN Some(j.fields[k]) ELSE None

\* Option<String> with serde(default): type, relatedPackages
de_OptString(field) ==
    IF field = None \/ field[1].variant = "Null" THEN Good(None)
    ELSE IF field[1].variant = "String" THEN Good(Some(field[1].s))
    ELSE Bad

\* bool with serde(default): readOnly (null is not a bool)
de_Bool(field) ==
    IF field = None THEN Good(FALSE)
    ELSE IF field[1].variant = "Bool" THEN Good(field[1].b)
    ELSE Bad

\* Option<Description>, untagged: a string, or an object with the strings
\* _type and text (the descriptions of the model are no arrays)
de_Description(field) ==
    IF field = None \/ field[1].variant = "Null" THEN Good(None)
    ELSE IF field[1].variant = "String" THEN Good(Some(Plain(field[1].s)))
    ELSE IF /\ IsJsonObject(field[1])
            /\ "_type" \in DOMAIN field[1].fields
            /\ field[1].fields["_type"].variant = "String"
            /\ "text" \in DOMAIN field[1].fields
            /\ field[1].fields["text"].variant = "String"
    THEN Good(Some(MdDoc(field[1].fields["text"].s)))
    ELSE Bad

\* DeclarationLoc, untagged: a string, or an object with the string name
\* and an optional string url
de_DeclarationLoc(j) ==
    IF j.variant = "String" THEN Good(Path(j.s))
    ELSE IF /\ IsJsonObject(j)
            /\ "name" \in DOMAIN j.fields
            /\ j.fields["name"].variant = "String"
            /\ de_OptString(FieldOf(j, "url")).ok
    THEN Good(Named(j.fields["name"].s, de_OptString(FieldOf(j, "url")).v))
    ELSE Bad

\* Vec<DeclarationLoc> with serde(default)
de_Declarations(field) ==
    IF field = None THEN Good(<<>>)
    ELSE IF /\ field[1].variant = "Array"
            /\ \A i \in 1..Len(field[1].arr) : de_DeclarationLoc(field[1].arr[i]).ok
    THEN Good([i \in 1..Len(field[1].arr) |-> de_DeclarationLoc(field[1].arr[i]).v])
    ELSE Bad

BuildOptionDef(description, option_type, default, example, declarations, read_only, related_packages) ==
    IF description.ok /\ option_type.ok /\ declarations.ok /\ read_only.ok
       /\ related_packages.ok
    THEN Good([option_type |-> option_type.v, read_only |-> read_only.v,
               default |-> default, description |-> description.v,
               example |-> example, related_packages |-> related_packages.v,
               declarations |-> declarations.v])
    ELSE Bad

\* OptionDef's derived Deserialize (camelCase names, every field with a
\* default, unknown fields ignored); the options of the model are no arrays
deserialize_OptionDef(j) ==
    IF ~IsJsonObject(j) THEN Bad
    ELSE BuildOptionDef(de_Description(FieldOf(j, "description")),
                        de_OptString(FieldOf(j, "type")),
                        deserialize_Option(FieldOf(j, "default")),
                        deserialize_Option(FieldOf(j, "example")),
                        de_Declarations(FieldOf(j, "declarations")),
                        de_Bool(FieldOf(j, "readOnly")),
                        de_OptString(FieldOf(j, "relatedPackages")))

\* a text that is no JSON
SyntaxError == [variant |-> "SyntaxError"]

\* parse_options_json leaving out the options that do not deserialize
parse_options_json_SkipBad(doc) ==
    IF ~IsJsonObject(doc) THEN Bad
    ELSE Good([k \in {n \in DOMAIN doc.fields : deserialize_OptionDef(doc.fields[n]).ok} |->
                  deserialize_OptionDef(doc.fields[k]).v])

\* parse_options_json: serde_json::from_str::<HashMap<String, OptionDef>>
parse_options_json(doc) ==
    IF ~IsJsonObject(doc) THEN Bad
    ELSE IF \E k \in DOMAIN doc.fields : ~deserialize_OptionDef(doc.fields[k]).ok THEN Bad
    ELSE Good([k \in DOMAIN doc.fields |-> deserialize_OptionDef(doc.fields[k]).v])

\* the parts render_option pushes, one by one
HeadingPart(name, opts) ==
    <<"#", "#", " ", Backtick>> \o name \o <<Backtick, " ", "{", "#">> \o make_anchor_id(name, opts.anchor_prefix)
    \o <<"}", "\n", "\n">>

TypePart(opt) ==
    IF opt.option_type = None THEN <<>>
    ELSE <<"*", "*", "T", "y", "p", "e", ":", "*", "*", " ", Backtick>> \o opt.option_type[1] \o <<Backtick>>
         \o (IF opt.read_only THEN <<" ", "*", "(", "r", "e", "a", "d", " ", "o", "n", "l", "y", ")", "*">> ELSE <<>>) \o <<"\n", "\n">>

ValuePart(label, formatted) ==
    IF contains(formatted, "\n")
    THEN <<"*", "*">> \o label \o <<":", "*", "*", "\n", "\n">> \o formatted \o <<"\n", "\n">>
    ELSE <<"*", "*">> \o label \o <<":", "*", "*", " ">> \o formatted \o <<"\n", "\n">>

DefaultPart(opt) ==
    IF opt.default = None THEN <<>>
    ELSE ValuePart(<<"D", "e", "f", "a", "u", "l", "t">>, format_option_value(opt.default[1]))

DescriptionPart(opt) ==
    IF opt.description = None \/ as_str(opt.description[1]) = <<>> THEN <<>>
    ELSE as_str(opt.description[1]) \o <<"\n", "\n">>

ExamplePart(opt) ==
    IF opt.example = None THEN <<>>
    ELSE ValuePart(<<"E", "x", "a", "m", "p", "l", "e">>, format_option_value(opt.example[1]))

RelatedPart(opt) ==
    IF opt.related_packages = None \/ opt.related_packages[1] = <<>> THEN <<>>
    ELSE <<"*", "*", "R", "e", "l", "a", "t", "e", "d", " ", "p", "a", "c", "k", "a", "g", "e", "s", ":", "*", "*", "\n", "\n">> \o opt.related_packages[1] \o <<"\n", "\n">>

\* DeclarationLine with the base URL tried before the declaration's own URL
DeclarationLine_BaseFirst(decl, opts) ==
    IF opts.declarations_base_url # None
    THEN <<"-", " ", "[">> \o md_escape(decl.name) \o <<"]", "(">>
         \o trim_end_matches(opts.declarations_base_url[1], "/")
         \o <<"/", "b", "l", "o", "b", "/">> \o UnwrapOr(opts.revision, <<"m", "a", "s", "t", "e", "r">>) \o <<"/">>
         \o decl.name \o <<")", "\n">>
    ELSE IF decl.url # None
    THEN <<"-", " ", "[">> \o md_escape(decl.name) \o <<"]", "(">> \o decl.url[1] \o <<")", "\n">>
    ELSE <<"-", " ", Backtick>> \o decl.name \o <<Backtick, "\n">>

DeclarationLine(decl, opts) ==
    IF decl.url # None
    THEN <<"-", " ", "[">> \o md_escape(decl.name) \o <<"]", "(">> \o decl.url[1] \o <<")", "\n">>
    ELSE IF opts.declarations_base_url # None
    THEN <<"-", " ", "[">> \o md_escape(decl.name) \o <<"]", "(">>
         \o trim_end_matches(opts.declarations_base_url[1], "/")
         \o <<"/", "b", "l", "o", "b", "/">> \o UnwrapOr(opts.revision, <<"m", "a", "s", "t", "e", "r">>) \o <<"/">>
         \o decl.name \o <<")", "\n">>
    ELSE <<"-", " ", Backtick>> \o decl.name \o <<Backtick, "\n">>

DeclarationsPart(opt, opts) ==
    IF ~opts.include_declarations \/ opt.declarations = <<>> THEN <<>>
    ELSE <<"*", "*", "D", "e", "c", "l", "a", "r", "e", "d", " ", "b", "y", ":", "*", "*", "\n", "\n">>
         \o Concat([i \in 1..Len(opt.declarations) |->
                       DeclarationLine(opt.declarations[i], opts)])
         \o <<"\n">>

\* render_option with the description ahead of the default value
render_option_DescriptionFirst(name, opt, opts) ==
    HeadingPart(name, opts) \o TypePart(opt) \o DescriptionPart(opt)
    \o DefaultPart(opt) \o ExamplePart(opt) \o RelatedPart(opt)
    \o DeclarationsPart(opt, opts)

render_option(name, opt, opts) ==
    HeadingPart(name, opts) \o TypePart(opt) \o DefaultPart(opt)
    \o DescriptionPart(opt) \o ExamplePart(opt) \o RelatedPart(opt)
    \o DeclarationsPart(opt, opts)

\* the loop over the sorted names
RECURSIVE RenderAll(_, _, _)
RenderAll(names_, options_, render_opts) ==
    IF names_ = <<>> THEN <<>>
    ELSE render_option(Head(names_), options_[Head(names_)], render_opts)
         \o RenderAll(Tail(names_), options_, render_opts)

\* render_options_to_commonmark; keys_ is options.keys() in the order the
\* hash map iterates
render_options_to_commonmark(options_, keys_, render_opts) ==
    RenderAll(sort_by(keys_), options_, render_opts)

\* render_options_document; keys_ as in render_options_to_commonmark
render_options_document(options_, keys_, title, preamble, render_opts) ==
    <<"#", " ">> \o title \o <<"\n", "\n">>
    \o (IF preamble = None THEN <<>> ELSE preamble[1] \o <<"\n", "\n">>)
    \o render_options_to_commonmark(options_, keys_, render_opts)

----------------------------------------------------------------------------
(* ManualEntry::get_ident_title (legacy.rs, not among the source files:    *)
(* modelled from the specification, sections 4.4 and 8).                   *)

NonEmpty(ps) == SelectSeq(ps, LAMBDA x : x # <<>>)

PrimeToken == <<"-", "p", "r", "i", "m", "e">>

\* get_ident_title with the empty parts joined like the others
get_ident_title_KeepEmpty(e) ==
    LET name_prime == replace(e.name, "'", PrimeToken)
    IN  <<join(<<e.prefix, e.category, name_prime>>, "."),
          join(<<e.prefix, e.category, e.name>>, ".")>>

\* the identifier and the title of an entry
get_ident_title(e) ==
    LET name_prime == replace(e.name, "'", PrimeToken)
    IN  <<join(NonEmpty(<<e.prefix, e.category, name_prime>>), "."),
          join(NonEmpty(<<e.prefix, e.category, e.name>>), ".")>>

----------------------------------------------------------------------------
(* Bounds and inputs.                                                      *)

MaxText == 5
MaxShift == 2
MaxLines == 4

FmtChars == {"a", " ", "#", "\n"}

\* the context of the runs of the resolver (test_export_flag)
Prefix == <<"l", "i", "b">>
Category == <<"e", "x", "p", "o", "r", "t">>
Locs == EmptyMap

MaxLet == 2
MaxChildren == 2
MaxExport == 2

NameA == <<"a">>
NameB == <<"b">>
NameC == <<"c">>
BindingNames == {NameA, NameB, NameC}

\* comments: a structured one with a heading, another structured one, a
\* legacy one with a type section
DocHeading == <<"#", "d">>
DocOther == <<"e">>
DocBlank == <<" ">>
LegacyTyped == <<"l", "\n", "T", "y", "p", "e", ":", "t">>

LamXY == Lambda(IdentParam(<<"x">>), Lambda(IdentParam(<<"y">>), Lit))
NestedSet == AttrSet(<<AttrpathValue(NameC, Some(DocHeading), None, Lit)>>)
SetOfC ==
    AttrSet(<<AttrpathValue(NameB, Some(DocOther), None, Lit),
              Inherit(None, <<AttrIdent(NameA)>>)>>)

\* the bindings let blocks are made of
LetPool ==
    {AttrpathValue(NameA, Some(DocHeading), None, Lit),
     AttrpathValue(NameA, Some(DocOther), Some(LegacyTyped), LamXY),
     AttrpathValue(NameB, None, Some(LegacyTyped), LamXY),
     AttrpathValue(NameB, None, None, Lit),
     AttrpathValue(NameC, None, None, Ident(NameA)),
     AttrpathValue(NameC, Some(DocHeading), None, SetOfC),
     AttrpathValue(NameC, None, None, Ident(NameC))}

\* the children attribute sets are made of
ChildPool ==
    {AttrpathValue(NameA, None, Some(LegacyTyped), LamXY),
     AttrpathValue(NameA, Some(DocOther), Some(LegacyTyped), Lit),
     AttrpathValue(NameB, None, None, Lit),
     AttrpathValue(NameB, Some(DocHeading), None, NestedSet),
     Inherit(None, <<AttrIdent(NameA), AttrIdent(NameB)>>),
     Inherit(None, <<AttrStr(NameA), AttrIdent(NameC)>>),
     Inherit(Some(Lit), <<AttrIdent(NameA)>>),
     AttrpathValue(NameC, Some(DocBlank), Some(LegacyTyped), LamXY)}

LetBlocks == SeqsUpTo(LetPool, MaxLet)
AttrSets == {AttrSet(cs) : cs \in SeqsUpTo(ChildPool, MaxChildren)}
ExportLists == {Some(ns) : ns \in SeqsUpTo(BindingNames, MaxExport)}

\* the bodies of let blocks: attribute sets, identifiers, a plain value, a
\* function returning an attribute set
FewBodies ==
    {Lit, SetOfC, Ident(NameC), Ident(NameA),
     Lambda(IdentParam(<<"x">>), SetOfC),
     Lambda(IdentParam(<<"x">>), NestedSet),
     AttrSet(<<Inherit(None, <<AttrIdent(NameA), AttrIdent(NameB)>>),
               AttrpathValue(NameB, None, None, Lit)>>)}

\* bodies listing the same bindings in both orders
FewChildren ==
    {AttrpathValue(NameA, Some(DocOther), Some(LegacyTyped), Lit),
     AttrpathValue(NameB, Some(DocHeading), None, NestedSet),
     Inherit(None, <<AttrIdent(NameA), AttrIdent(NameB)>>)}
Bodies == FewBodies \cup {AttrSet(<<c, d>>) : c, d \in FewChildren}

\* let blocks with two documented bindings, with an alias, with none
FewLets ==
    {<<>>,
     <<AttrpathValue(NameA, Some(DocHeading), None, Lit),
       AttrpathValue(NameB, None, Some(LegacyTyped), LamXY)>>,
     <<AttrpathValue(NameC, None, None, Ident(NameA)),
       AttrpathValue(NameA, Some(DocOther), Some(LegacyTyped), LamXY)>>}

\* let blocks with chains of aliases: c = a; a = b; b = { .. }, a chain
\* that ends at a name the block does not bind, one that ends at a function,
\* x = y; y = x, and a chain through a name bound twice
SetOfAll ==
    AttrSet(<<Inherit(None, <<AttrIdent(NameB), AttrIdent(NameC), AttrIdent(NameA)>>),
              AttrpathValue(NameC, Some(DocOther), None, Lit)>>)
ChainLets ==
    {<<AttrpathValue(NameC, None, None, Ident(NameA)),
       AttrpathValue(NameA, Some(DocOther), None, Ident(NameB)),
       AttrpathValue(NameB, Some(DocHeading), None, SetOfAll)>>,
     <<AttrpathValue(NameC, Some(DocOther), None, Ident(NameA)),
       AttrpathValue(NameA, None, None, Ident(NameB))>>,
     <<AttrpathValue(NameC, None, None, Ident(NameA)),
       AttrpathValue(NameA, None, Some(LegacyTyped), Ident(NameB)),
       AttrpathValue(NameB, Some(DocHeading), None, Lambda(IdentParam(<<"x">>), SetOfAll))>>,
     <<AttrpathValue(NameA, Some(DocHeading), None, Ident(NameC)),
       AttrpathValue(NameC, None, None, Ident(NameA))>>,
     <<AttrpathValue(NameC, None, None, Ident(NameA)),
       AttrpathValue(NameA, Some(DocOther), None, SetOfC),
       AttrpathValue(NameA, Some(DocHeading), None, Ident(NameC))>>}

\* modules with a scope node inside another: an attribute set with a let
\* block as the value of a binding, a let block with a let block as the
\* value of a binding, a function whose pattern holds a let block
InnerLet ==
    LetIn(<<AttrpathValue(NameB, Some(DocHeading), None, Lit)>>,
          AttrSet(<<Inherit(None, <<AttrIdent(NameB), AttrIdent(NameA)>>),
                    AttrpathValue(NameC, Some(DocOther), None, Lit)>>))
NestedModules ==
    {AttrSet(<<AttrpathValue(NameA, Some(DocOther), None, InnerLet),
               Inherit(None, <<AttrIdent(NameB)>>)>>),
     LetIn(<<AttrpathValue(NameA, Some(DocOther), None, InnerLet)>>, Ident(NameA)),
     LetIn(<<AttrpathValue(NameA, Some(DocOther), None, InnerLet)>>, SetOfC),
     Lambda(Pattern(<<InnerLet>>), Lit),
     Lambda(Pattern(<<InnerLet>>), InnerLet)}

\* bindings whose values are functions of several shapes: curried with a
\* pattern in the chain, returning an attribute set of functions, and
\* values that are no functions
LamPattern ==
    Lambda(IdentParam(<<"x">>),
           Lambda(Pattern(<<NestedSet>>), Lambda(IdentParam(<<"y">>), Lit)))
LamSet ==
    Lambda(IdentParam(<<"x">>),
           AttrSet(<<AttrpathValue(NameC, None, Some(LegacyTyped), LamXY)>>))
ArgChildren ==
    {AttrpathValue(NameA, None, Some(LegacyTyped), LamPattern),
     AttrpathValue(NameB, None, Some(LegacyTyped), LamSet),
     AttrpathValue(NameC, Some(DocOther), None, LamXY),
     AttrpathValue(NameA, None, Some(LegacyTyped), Lit),
     AttrpathValue(NameB, None, Some(LegacyTyped), Ident(NameA)),
     AttrpathValue(NameC, Some(DocOther), Some(LegacyTyped), LamPattern),
     Inherit(None, <<AttrIdent(NameA), AttrIdent(NameB)>>)}

FewExports ==
    {Some(<<NameA>>), Some(<<NameB, NameA>>), Some(<<NameC, NameB>>)}

\* what stands between the root and the first scope node: nothing, a
\* function of one argument, a function with a pattern whose default value
\* is an attribute set
Wrap(w, e) ==
    CASE w = "none" -> Root(e)
      [] w = "lambda" -> Root(Lambda(IdentParam(<<"x">>), e))
      [] w = "pattern" -> Root(Lambda(Pattern(<<NestedSet>>), e))
Wrappers == {"none", "lambda", "pattern"}

\* the lines legacy comments are made of
LineDoesX == <<"D", "o", "e", "s", " ", "X", ".">>
LineType == <<"T", "y", "p", "e", ":", " ", "a", " ", "-", ">", " ", "b">>
LineExample == <<"E", "x", "a", "m", "p", "l", "e", ":", " ", "f", " ", "1">>
LineMore == <<" ", " ", "m", "o", "r", "e">>
LineIndentedType == <<" ", " ", "T", "y", "p", "e", ":", "t", " ">>
LineNotAMarker == <<"x", "T", "y", "p", "e", ":">>
LineBareExample == <<"E", "x", "a", "m", "p", "l", "e", ":">>
LegacyLines ==
    {LineDoesX, LineType, LineExample, LineMore, <<>>, LineIndentedType,
     LineNotAMarker, LineBareExample}

\* the options of the renderer runs
MaxOptions == 3

SvcEnable == <<"s", "v", "c", ".", "e", "n", "a", "b", "l", "e">>
SvcPackage == <<"s", "v", "c", ".", "p", "a", "c", "k", "a", "g", "e">>
SvcPort == <<"s", "v", "c", ".", "p", "o", "r", "t">>
OptionNames ==
    {SvcEnable, SvcPackage, SvcPort, <<"s", "v", "c">>, <<"s", "v", "c", ".", "a", "b", "c">>, <<"s", "v", "c", ".", "e", "n", "a", "b", "l", "e", "F", "o", "o">>,
     <<"a", "b", "c", ".", "p", "o", "r", "t">>, <<"s", "v", "c", ".", "Z", "e", "d">>, <<"s", "v", "c", ".", "p", "o", "r", "t", ".", "e", "n", "a", "b", "l", "e">>}

\* an option with nothing but its name, and one with every field
BareOption ==
    [option_type |-> None, read_only |-> FALSE, default |-> None,
     description |-> None, example |-> None, related_packages |-> None,
     declarations |-> <<>>]
FullOption ==
    [option_type |-> Some(<<"b", "o", "o", "l", "e", "a", "n">>), read_only |-> TRUE,
     default |-> Some(Bool(FALSE)),
     description |-> Some(Plain(<<"O", "n", ".">>)),
     example |-> Some(Tagged(LiteralExpression, Some(<<"a", "\n", "b">>))),
     related_packages |-> Some(<<"p", "k", "g", "s", ".", "x">>),
     declarations |-> <<Path(<<"m", "_", "a", ".", "n", "i", "x">>),
                        Named(<<"b", ".", "n", "i", "x">>, Some(<<"h", "t", "t", "p", "s", ":", "/", "/", "x", "/", "b">>))>>]

\* the RenderOptions of test_options_rendering
RenderOpts ==
    [anchor_prefix |-> <<"o", "p", "t", "-">>, include_declarations |-> TRUE,
     declarations_base_url |-> Some(<<"h", "t", "t", "p", "s", ":", "/", "/", "h", "/", "r", "/">>),
     revision |-> Some(<<"m", "a", "i", "n">>)]

NameSets == {S \in SUBSET OptionNames : Cardinality(S) <= MaxOptions}

\* the orders in which a hash map with these keys may iterate
KeyOrders(S) ==
    {s \in [1..Cardinality(S) -> S] : \A i, j \in 1..Cardinality(S) : s[i] = s[j] => i = j}

\* the entries get_ident_title is called on
MaxName == 3
NameChars == {"m", "a", "'"}
MapSimplePrime == <<"m", "a", "p", "S", "i", "m", "p", "l", "e", "'">>
EntryNames ==
    {n \in SeqsUpTo(NameChars, MaxName) : n # <<>> /\ n[1] # "'"}
    \cup {MapSimplePrime}
EntryPrefixes == {<<>>, Prefix}
EntryCategories == {<<>>, <<"t", "e", "s", "t">>}

----------------------------------------------------------------------------
(* The idle values of each component's variables.                          *)

FmtIdle ==
    /\ fdoc = None /\ flegacy = None /\ fshift = 0 /\ fshift2 = 0
    /\ fpc = "idle" /\ fout = None /\ fout1 = None /\ fout2 = None
    /\ fsum = None

LegIdle ==
    /\ raw = <<>> /\ lines = <<>> /\ state = "Doc"
    /\ doc_str = <<>> /\ type_str = <<>> /\ example_str = <<>>
    /\ lpc = "idle" /\ comment = None

ColIdle ==
    /\ root = None /\ export = None /\ cpc = "idle" /\ entries = <<>>

OptIdle ==
    /\ options = <<>> /\ keys = <<>> /\ opc = "idle" /\ names = <<>>
    /\ output = <<>>

TtlIdle ==
    /\ entry = None /\ tpc = "idle" /\ ident_title = None

RunIdle ==
    /\ cmd = "none" /\ input = None /\ target = "none" /\ mpc = "idle"
    /\ calls = <<>> /\ loaded = None /\ result = None /\ written = None
    /\ status = "none"

ValIdle ==
    /\ json = None /\ vpc = "idle" /\ parsed = None /\ value_text = None

RndIdle ==
    /\ rname = <<>> /\ ropt = None /\ ropts = None /\ rpc = "idle" /\ rendered = <<>>

----------------------------------------------------------------------------
(* The FileDoc command: extract the file-level documentation, shift its    *)
(* headings, print it.  A second run on the printed document and a run     *)
(* with the summed shift are carried along for comparison.                 *)

FmtInit ==
    /\ LegIdle /\ ColIdle /\ OptIdle /\ TtlIdle /\ RndIdle /\ ValIdle /\ RunIdle
    /\ \E t \in SeqsUpTo(FmtChars, MaxText), k \in {"doc", "legacy", "none"} :
          /\ fdoc = IF k = "doc" THEN Some(t) ELSE None
          /\ flegacy = IF k = "legacy" THEN Some(t) ELSE None
          /\ (k = "none" => t = <<>>)
    /\ fshift \in 0..MaxShift
    /\ fshift2 \in 0..MaxShift
    /\ fpc = "start"
    /\ fout = None /\ fout1 = None /\ fout2 = None /\ fsum = None

\* extract_file_doc(&nix)
ExtractFileDoc ==
    /\ fpc = "start"
    /\ fout' = extract_file_doc(fdoc, flegacy)
    /\ fpc' = "extracted"
    /\ UNCHANGED <<fdoc, flegacy, fshift, fshift2, fout1, fout2, fsum>>
    /\ UNCHANGED <<legVars, colVars, optVars, ttlVars, rndVars, valVars, runVars>>

\* the document one run prints, and the one a run with the summed shift prints
ShiftFileDoc ==
    /\ fpc = "extracted"
    /\ fout1' = FileDocShift(fout, fshift)
    /\ fsum' = FileDocShift(fout, fshift + fshift2)
    /\ fpc' = "shifted"
    /\ UNCHANGED <<fdoc, flegacy, fshift, fshift2, fout, fout2>>
    /\ UNCHANGED <<legVars, colVars, optVars, ttlVars, rndVars, valVars, runVars>>

\* the first run's document shifted again by fshift2
ShiftAgain ==
    /\ fpc = "shifted"
    /\ fout2' = FileDocShift(fout1, fshift2)
    /\ fpc' = "done"
    /\ UNCHANGED <<fdoc, flegacy, fshift, fshift2, fout, fout1, fsum>>
    /\ UNCHANGED <<legVars, colVars, optVars, ttlVars, rndVars, valVars, runVars>>

FmtNext == ExtractFileDoc \/ ShiftFileDoc \/ ShiftAgain

SpecFormat == FmtInit /\ [][FmtNext]_vars

----------------------------------------------------------------------------
(* parse_doc_comment, one line of the comment per step.                    *)

LegInit ==
    /\ FmtIdle /\ ColIdle /\ OptIdle /\ TtlIdle /\ RndIdle /\ ValIdle /\ RunIdle
    /\ \E ls \in SeqsUpTo(LegacyLines, MaxLines) \ {<<>>}, nl \in {<<>>, <<"\n">>} :
          raw = join(ls, "\n") \o nl
    /\ lines = split_inclusive(raw)
    /\ state = ScanStart.state
    /\ doc_str = ScanStart.doc_str
    /\ type_str = ScanStart.type_str
    /\ example_str = ScanStart.example_str
    /\ lpc = "scan"
    /\ comment = None

Scanner == [state |-> state, doc_str |-> doc_str, type_str |-> type_str,
            example_str |-> example_str]

\* the loop body on the next line
ScanStep ==
    /\ lpc = "scan"
    /\ lines # <<>>
    /\ LET s == ScanLine(Scanner, Head(lines))
       IN  /\ state' = s.state
           /\ doc_str' = s.doc_str
           /\ type_str' = s.type_str
           /\ example_str' = s.example_str
    /\ lines' = Tail(lines)
    /\ UNCHANGED <<raw, lpc, comment>>
    /\ UNCHANGED <<fmtVars, colVars, optVars, ttlVars, rndVars, valVars, runVars>>

\* the loop is over: normalize the three buffers and return
ScanReturn ==
    /\ lpc = "scan"
    /\ lines = <<>>
    /\ comment' = Some(MakeDocComment(Scanner))
    /\ lpc' = "done"
    /\ UNCHANGED <<raw, lines, state, doc_str, type_str, example_str>>
    /\ UNCHANGED <<fmtVars, colVars, optVars, ttlVars, rndVars, valVars, runVars>>

LegNext == ScanStep \/ ScanReturn

SpecLegacy == LegInit /\ [][LegNext]_vars

----------------------------------------------------------------------------
(* The legacy mode of main: collect_entries on the parsed module.          *)

\* the modules and export lists of the runs: let blocks with an export
\* list, let blocks without, modules without a let block
ColInit ==
    /\ FmtIdle /\ LegIdle /\ OptIdle /\ TtlIdle /\ RndIdle /\ ValIdle /\ RunIdle
    /\ \/ \E w \in Wrappers, es \in LetBlocks, x \in FewExports :
              root = Wrap(w, LetIn(es, SetOfC)) /\ export = x
       \/ \E es \in FewLets, b \in FewBodies, x \in ExportLists :
              root = Wrap("none", LetIn(es, b)) /\ export = x
       \/ \E w \in Wrappers, es \in LetBlocks, b \in FewBodies :
              root = Wrap(w, LetIn(es, b)) /\ export = None
       \/ \E es \in FewLets, b \in AttrSets :
              root = Wrap("none", LetIn(es, b)) /\ export = None
       \/ \E w \in Wrappers, es \in ChainLets, b \in FewBodies :
              root = Wrap(w, LetIn(es, b)) /\ export = None
       \/ \E m \in NestedModules, x \in {None, Some(<<NameB, NameA>>)} :
              root = Root(m) /\ export = x
       \/ \E c, d \in ArgChildren, es \in FewLets :
              root = Wrap("none", LetIn(es, AttrSet(<<c, d>>))) /\ export = None
       \/ \E w \in Wrappers, c, d \in ArgChildren :
              root = Wrap(w, AttrSet(<<c, d>>)) /\ export = None
       \/ \E w \in Wrappers, e \in AttrSets \cup {Lit},
              x \in {None, Some(<<NameA>>), Some(<<NameB, NameA>>)} :
              root = Wrap(w, e) /\ export = x
    /\ cpc = "start"
    /\ entries = <<>>

\* collect_entries returns the entries
CollectEntries ==
    /\ cpc = "start"
    /\ LET r == collect_entries(root, Prefix, Category, Locs, export)
       IN  /\ r.tag = "Ok"
           /\ entries' = r.entries
    /\ cpc' = "collected"
    /\ UNCHANGED <<root, export>>
    /\ UNCHANGED <<fmtVars, legVars, optVars, ttlVars, rndVars, valVars, runVars>>

\* resolve_let_ident never returns: the process dies of a stack overflow
CollectOverflow ==
    /\ cpc = "start"
    /\ collect_entries(root, Prefix, Category, Locs, export).tag = "Overflow"
    /\ cpc' = "aborted"
    /\ UNCHANGED <<root, export, entries>>
    /\ UNCHANGED <<fmtVars, legVars, optVars, ttlVars, rndVars, valVars, runVars>>

Next == CollectEntries \/ CollectOverflow

Spec == ColInit /\ [][Next]_vars

----------------------------------------------------------------------------
(* The Options command: render_options_to_commonmark, one option section   *)
(* per step.                                                               *)

OptInit ==
    /\ FmtIdle /\ LegIdle /\ ColIdle /\ TtlIdle /\ RndIdle /\ ValIdle /\ RunIdle
    /\ \E S \in NameSets :
          /\ \E full \in S \cup {<<>>} :
                options = [n \in S |-> IF n = full THEN FullOption ELSE BareOption]
          /\ keys \in KeyOrders(S)
    /\ opc = "start"
    /\ names = <<>>
    /\ output = <<>>

\* names = options.keys().collect(); names.sort_by(compare_option_names)
SortNames ==
    /\ opc = "start"
    /\ names' = sort_by(keys)
    /\ opc' = "sorted"
    /\ UNCHANGED <<options, keys, output>>
    /\ UNCHANGED <<fmtVars, legVars, colVars, ttlVars, rndVars, valVars, runVars>>

\* one iteration of the loop over names: the section of the next option
RenderNext ==
    /\ opc = "sorted"
    /\ Len(output) < Len(names)
    /\ LET name == names[Len(output) + 1]
       IN  output' = Append(output, render_option(name, options[name], RenderOpts))
    /\ UNCHANGED <<options, keys, opc, names>>
    /\ UNCHANGED <<fmtVars, legVars, colVars, ttlVars, rndVars, valVars, runVars>>

\* the loop is over: the document is returned
RenderReturn ==
    /\ opc = "sorted"
    /\ Len(output) = Len(names)
    /\ opc' = "done"
    /\ UNCHANGED <<options, keys, names, output>>
    /\ UNCHANGED <<fmtVars, legVars, colVars, ttlVars, rndVars, valVars, runVars>>

OptNext == SortNames \/ RenderNext \/ RenderReturn

SpecOptions == OptInit /\ [][OptNext]_vars

----------------------------------------------------------------------------
(* get_ident_title on an entry (test_empty_prefix).                        *)

ManualEntry(name, prefix, category) ==
    [args |-> <<>>, category |-> category, location |-> None,
     description |-> <<>>, example |-> None, fn_type |-> None,
     name |-> name, prefix |-> prefix]

TtlInit ==
    /\ FmtIdle /\ LegIdle /\ ColIdle /\ OptIdle /\ RndIdle /\ ValIdle /\ RunIdle
    /\ \E n \in EntryNames, p \in EntryPrefixes, c \in EntryCategories :
          entry = Some(ManualEntry(n, p, c))
    /\ tpc = "start"
    /\ ident_title = None

\* let (ident, title) = test_entry.get_ident_title()
GetIdentTitle ==
    /\ tpc = "start"
    /\ ident_title' = Some(get_ident_title(entry[1]))
    /\ tpc' = "done"
    /\ UNCHANGED entry
    /\ UNCHANGED <<fmtVars, legVars, colVars, optVars, rndVars, valVars, runVars>>

TtlNext == GetIdentTitle

SpecTitle == TtlInit /\ [][TtlNext]_vars

----------------------------------------------------------------------------
(* render_option on one option: the declaration list and the layout.       *)

MaxDecls == 2

ModA == <<"m", "_", "a", ".", "n", "i", "x">>
DeclUrl == <<"h", "t", "t", "p", "s", ":", "/", "/", "x", "/", "b">>

\* declaration sites: a path string, a name without a URL, a name with one
DeclPool == {Path(ModA), Named(<<"b", ".", "n", "i", "x">>, None), Named(<<"c", ".", "n", "i", "x">>, Some(DeclUrl))}

\* the RenderOptions of the command line: RenderOptions::default() and
\* those of test_options_rendering among them
AllRenderOpts ==
    {[anchor_prefix |-> <<"o", "p", "t", "-">>, include_declarations |-> inc,
      declarations_base_url |-> base, revision |-> rev] :
        inc \in BOOLEAN,
        base \in {None, Some(<<"h", "t", "t", "p", "s", ":", "/", "/", "h", "/", "r">>), Some(<<"h", "t", "t", "p", "s", ":", "/", "/", "h", "/", "r", "/">>), Some(<<"h", "t", "t", "p", "s", ":", "/", "/", "h", "/", "r", "/", "/">>)},
        rev \in {None, Some(<<"m", "a", "i", "n">>)}}

\* the fields of an option other than its declarations
OptionFields ==
    {[option_type |-> ty, read_only |-> ro, default |-> df,
      description |-> ds, example |-> ex, related_packages |-> rp,
      declarations |-> <<>>] :
        ty \in {None, Some(<<"b", "o", "o", "l", "e", "a", "n">>)}, ro \in BOOLEAN,
        df \in {None, Some(Bool(FALSE)), Some(Tagged(LiteralExpression, Some(<<"a", "\n", "b">>)))},
        ds \in {None, Some(Plain(<<>>)), Some(Plain(<<"O", "n", ".">>)), Some(MdDoc(<<"*", "x", "*">>))},
        ex \in {None, Some(String(<<"a">>))},
        rp \in {None, Some(<<>>), Some(<<"[", "p", "_", "q", "]", "(", "u", ")">>)}}

RenderNames == {SvcEnable, <<"a", ".", "<", "b", ">", ".", "*">>}

RndInit ==
    /\ FmtIdle /\ LegIdle /\ ColIdle /\ OptIdle /\ TtlIdle /\ ValIdle /\ RunIdle
    /\ rname \in RenderNames
    /\ \/ /\ \E o \in {BareOption, FullOption}, ds \in SeqsUpTo(DeclPool, MaxDecls) :
                ropt = [o EXCEPT !.declarations = ds]
          /\ ropts \in AllRenderOpts
       \/ /\ \E o \in OptionFields, ds \in SeqsUpTo(DeclPool, 1) :
                ropt = [o EXCEPT !.declarations = ds]
          /\ ropts \in {RenderOpts,
                        [anchor_prefix |-> <<"o", "p", "t", "-">>, include_declarations |-> TRUE,
                         declarations_base_url |-> None, revision |-> None]}
    /\ rpc = "start"
    /\ rendered = <<>>

\* render_option(name, opt, opts)
RenderOption ==
    /\ rpc = "start"
    /\ rendered' = render_option(rname, ropt, ropts)
    /\ rpc' = "done"
    /\ UNCHANGED <<rname, ropt, ropts>>
    /\ UNCHANGED <<fmtVars, legVars, colVars, optVars, ttlVars, valVars, runVars>>

RndNext == RenderOption

SpecRenderOption == RndInit /\ [][RndNext]_vars

----------------------------------------------------------------------------
(* An option's default (or example) value: deserialized from its JSON,     *)
(* then formatted by render_option.                                        *)

MaxItems == 2

\* the scalars and the items of arrays
JsonScalars ==
    {String(<<"a">>), String(<<"a", "\n", "b">>), Bool(TRUE), Bool(FALSE), Number(0), Number(42), Null}
JsonItems == {String(<<"a">>), String(<<"b">>), Number(1), Bool(TRUE), Null, Map(<<>>), Array(<<>>)}

\* objects: with or without _type and text, of the expected types or not
TypeFields ==
    {String(LiteralExpression), String(LiteralMD), String(<<"f", "o", "o">>), Number(1), Null}
TextFields == {String(<<"1", " ", "+", " ", "1">>), String(<<"a", "\n", "b">>), Null, Number(1), Array(<<>>)}
JsonObject(t, x, o) ==
    Map([k \in (IF t = None THEN {} ELSE {"_type"}) \cup (IF x = None THEN {} ELSE {"text"})
               \cup (IF o = None THEN {} ELSE {"other"}) |->
            CASE k = "_type" -> t[1] [] k = "text" -> x[1] [] k = "other" -> o[1]])
JsonObjects ==
    {JsonObject(t, x, o) : t \in {None} \cup {Some(v) : v \in TypeFields},
                           x \in {None} \cup {Some(v) : v \in TextFields},
                           o \in {None, Some(Number(1))}}

JsonValues ==
    JsonScalars \cup JsonObjects \cup {Array(items) : items \in SeqsUpTo(JsonItems, MaxItems)}

ValInit ==
    /\ FmtIdle /\ LegIdle /\ ColIdle /\ OptIdle /\ TtlIdle /\ RndIdle /\ RunIdle
    /\ json \in {None} \cup {Some(j) : j \in JsonValues}
    /\ vpc = "start"
    /\ parsed = None
    /\ value_text = None

\* serde_json::from_str fills the field
DeserializeValue ==
    /\ vpc = "start"
    /\ parsed' = deserialize_Option(json)
    /\ vpc' = "parsed"
    /\ UNCHANGED <<json, value_text>>
    /\ UNCHANGED <<fmtVars, legVars, colVars, optVars, ttlVars, rndVars, runVars>>

\* if let Some(ref default) = opt.default { format_option_value(default) }
FormatValue ==
    /\ vpc = "parsed"
    /\ value_text' = IF parsed = None THEN None ELSE Some(format_option_value(parsed[1]))
    /\ vpc' = "done"
    /\ UNCHANGED <<json, parsed>>
    /\ UNCHANGED <<fmtVars, legVars, colVars, optVars, ttlVars, rndVars, runVars>>

ValNext == DeserializeValue \/ FormatValue

SpecValue == ValInit /\ [][ValNext]_vars

----------------------------------------------------------------------------
(* format_option_value on every variant of OptionValue.                    *)

OptionValues ==
    {Tagged(t, x) : t \in {LiteralExpression, LiteralMD, <<"f", "o", "o">>},
                    x \in {None, Some(<<"1", " ", "+", " ", "1">>), Some(<<"a", "\n", "b">>)}}
    \cup {String(<<"a">>), Bool(TRUE), Bool(FALSE), Number(0), Number(42), Object, Null}
    \cup {Array(items) : items \in SeqsUpTo(JsonItems, MaxItems)}

FvInit ==
    /\ FmtIdle /\ LegIdle /\ ColIdle /\ OptIdle /\ TtlIdle /\ RndIdle /\ RunIdle
    /\ json = None
    /\ vpc = "parsed"
    /\ parsed \in {Some(v) : v \in OptionValues}
    /\ value_text = None

FvNext == FormatValue

SpecFormatValue == FvInit /\ [][FvNext]_vars

----------------------------------------------------------------------------
(* A run of main: the Options command and the legacy mode.                 *)

\* the title and the preamble of test_options_rendering
Title == <<"M", "o", "d", "u", "l", "e", " ", "O", "p", "t", "i", "o", "n", "s">>
Preamble == Some(<<"T", "h", "e", "s", "e", " ", "a", "r", "e", " ", "t", "h", "e", " ", "a", "v", "a", "i", "l", "a", "b", "l", "e", " ", "m", "o", "d", "u", "l", "e", " ", "o", "p", "t", "i", "o", "n", "s", ".">>)

\* the JSON of an option: shapes OptionDef accepts, shapes it does not
GoodOption ==
    Map("description" :> String(<<"O", "n", ".">>) @@ "type" :> String(<<"b", "o", "o", "l", "e", "a", "n">>)
        @@ "default" :> Bool(FALSE) @@ "readOnly" :> Bool(TRUE)
        @@ "declarations" :> Array(<<String(ModA)>>))
GoodOptionJsons ==
    {GoodOption, Map(<<>>),
     Map("type" :> Null @@ "loc" :> Array(<<String(<<"s", "v", "c">>)>>)),
     Map("description" :> Map("_type" :> String(<<"m", "d", "D", "o", "c">>) @@ "text" :> String(<<"*", "x", "*">>))),
     Map("declarations" :> Array(<<Map("name" :> String(<<"b", ".", "n", "i", "x">>) @@ "url" :> Null)>>)
         @@ "default" :> Array(<<String(<<"a">>), String(<<"b">>)>>)),
     Map("example" :> Map("_type" :> Number(1)) @@ "relatedPackages" :> String(<<"[", "p", "]", "(", "u", ")">>))}
BadOptionJsons ==
    {String(<<"a">>), Number(1), Null,
     Map("type" :> Number(1)),
     Map("readOnly" :> Null),
     Map("readOnly" :> String(<<"y", "e", "s">>) @@ "type" :> String(<<"b", "o", "o", "l", "e", "a", "n">>)),
     Map("description" :> Number(1)),
     Map("description" :> Map("_type" :> String(<<"m", "d", "D", "o", "c">>))),
     Map("declarations" :> String(ModA)),
     Map("declarations" :> Array(<<String(ModA), Number(1)>>)),
     Map("declarations" :> Array(<<Map("url" :> String(DeclUrl))>>)),
     Map("relatedPackages" :> Bool(TRUE) @@ "description" :> String(<<"O", "n", ".">>))}
OptionJsons == GoodOptionJsons \cup BadOptionJsons

\* the options file: no JSON, JSON that is no object, up to two options
OptionDocs ==
    {SyntaxError, String(<<"a">>), Array(<<>>), Null, Map(<<>>)}
    \cup {Map(SvcEnable :> o) : o \in OptionJsons}
    \cup {Map(SvcEnable :> o @@ SvcPort :> p) : o, p \in OptionJsons}

\* rnix's parse of the module file: a tree and whether there were errors
ModuleParses ==
    {[root |-> Wrap("none", LetIn(es, b)), errors |-> e, export |-> x] :
        es \in LetBlocks, b \in {SetOfC, Ident(NameC)}, e \in BOOLEAN,
        x \in {None, Some(<<NameA>>)}}

RunInit ==
    /\ FmtIdle /\ LegIdle /\ ColIdle /\ OptIdle /\ TtlIdle /\ RndIdle /\ ValIdle
    /\ \/ cmd = "options" /\ input \in OptionDocs
          /\ target \in {"stdout", "file", "unwritable"}
       \/ cmd = "legacy" /\ input \in ModuleParses /\ target = "stdout"
    /\ mpc = "start"
    /\ calls = <<>>
    /\ loaded = None
    /\ result = None
    /\ written = None
    /\ status = "running"

\* options::parse_options_file(&file).unwrap_or_else(|e| exit(1))
ParseOptionsFile ==
    /\ cmd = "options" /\ mpc = "start"
    /\ calls' = Append(calls, "parse_options_file")
    /\ IF parse_options_json(input).ok
       THEN /\ loaded' = Some(parse_options_json(input).v)
            /\ mpc' = "parsed"
            /\ UNCHANGED status
       ELSE /\ status' = "exit(1)"
            /\ mpc' = "exited"
            /\ UNCHANGED loaded
    /\ UNCHANGED <<cmd, input, target, result, written>>
    /\ UNCHANGED <<fmtVars, legVars, colVars, optVars, ttlVars, rndVars, valVars>>

\* options::render_options_document(&parsed, &title, preamble, &render_opts)
RenderOptionsDocument ==
    /\ cmd = "options" /\ mpc = "parsed"
    /\ calls' = Append(calls, "render_options_document")
    /\ \E ks \in KeyOrders(DOMAIN loaded[1]) :
          result' = Some(render_options_document(loaded[1], ks, Title, Preamble, RenderOpts))
    /\ mpc' = "rendered"
    /\ UNCHANGED <<cmd, input, target, loaded, written, status>>
    /\ UNCHANGED <<fmtVars, legVars, colVars, optVars, ttlVars, rndVars, valVars>>

\* fs::write(&out_path, &result).unwrap_or_else(|e| exit(1)), or println!
WriteOutput ==
    /\ cmd = "options" /\ mpc = "rendered"
    /\ IF target = "unwritable"
       THEN status' = "exit(1)" /\ UNCHANGED written
       ELSE status' = "exit(0)" /\ written' = result
    /\ mpc' = "exited"
    /\ UNCHANGED <<cmd, input, target, calls, loaded, result>>
    /\ UNCHANGED <<fmtVars, legVars, colVars, optVars, ttlVars, rndVars, valVars>>

\* main_with_options: rnix::Root::parse(&src).ok().expect(..)
ParseModule ==
    /\ cmd = "legacy" /\ mpc = "start"
    /\ calls' = Append(calls, "rnix::Root::parse")
    /\ IF input.errors
       THEN /\ status' = "panic"
            /\ mpc' = "exited"
            /\ UNCHANGED loaded
       ELSE /\ loaded' = Some(input.root)
            /\ mpc' = "parsed"
            /\ UNCHANGED status
    /\ UNCHANGED <<cmd, input, target, result, written>>
    /\ UNCHANGED <<fmtVars, legVars, colVars, optVars, ttlVars, rndVars, valVars>>

\* main_with_options: retrieve_description, collect_entries and the
\* rendering of the entries; a stack overflow aborts the process
CollectModule ==
    /\ cmd = "legacy" /\ mpc = "parsed"
    /\ calls' = calls \o <<"retrieve_description", "collect_entries">>
    /\ IF collect_entries(loaded[1], Prefix, Category, Locs, input.export).tag = "Ok"
       THEN /\ result' = Some(collect_entries(loaded[1], Prefix, Category, Locs,
                                              input.export).entries)
            /\ mpc' = "rendered"
            /\ UNCHANGED status
       ELSE /\ status' = "abort"
            /\ mpc' = "exited"
            /\ UNCHANGED result
    /\ UNCHANGED <<cmd, input, target, loaded, written>>
    /\ UNCHANGED <<fmtVars, legVars, colVars, optVars, ttlVars, rndVars, valVars>>

\* println!("{}", output)
PrintOutput ==
    /\ cmd = "legacy" /\ mpc = "rendered"
    /\ written' = result
    /\ status' = "exit(0)"
    /\ mpc' = "exited"
    /\ UNCHANGED <<cmd, input, target, calls, loaded, result>>
    /\ UNCHANGED <<fmtVars, legVars, colVars, optVars, ttlVars, rndVars, valVars>>

RunNext ==
    \/ ParseOptionsFile \/ RenderOptionsDocument \/ WriteOutput
    \/ ParseModule \/ CollectModule \/ PrintOutput

SpecRun == RunInit /\ [][RunNext]_vars

----------------------------------------------------------------------------
(* Claims about the legacy scanner and the text normalizer.                *)

IsTypeLine(l) == starts_with(trim(l), TypeMarker)
IsExampleLine(l) == starts_with(trim(l), ExampleMarker)
IsMarkerLine(l) == IsTypeLine(l) \/ IsExampleLine(l)
AfterMarker(l, m) == Drop(trim(l), Len(m))

ExampleComment == LineDoesX \o <<"\n">> \o LineType \o <<"\n">> \o LineExample
ExampleResult ==
    [doc |-> LineDoesX,
     doc_type |-> Some(<<"a", " ", "-", ">", " ", "b">>),
     example |-> Some(<<"f", " ", "1">>)]

NotHeading(l) == l = <<>> \/ Head(l) # "#"

\* the texts a state of the FileDoc command holds
FmtStateTexts ==
    {o[1] : o \in {fdoc, flegacy, fout, fout1} \ {None}}

\* C8: shifting the headings by a and then by b gives what one shift by
\* a + b gives, a shift by 0 changes nothing, and a line that does not begin
\* with # is left as it is by every shift; the FileDoc command run with
\* --shift-headings a and then with b on its own output prints what one
\* run with a + b prints.
C8_HeadingShiftAdditive ==
    /\ fpc = "done" => fout2 = fsum
    /\ fpc \in {"shifted", "done"} /\ fshift = 0 => fout1 = fout
    /\ \A t \in FmtStateTexts :
          /\ shift_headings(shift_headings(t, fshift), fshift2)
                = shift_headings(t, fshift + fshift2)
          /\ shift_headings(t, 0) = t
          /\ LET ls == split_inclusive(t)
                 out == split_inclusive(shift_headings(t, fshift))
             IN  /\ Len(out) = Len(ls)
                 /\ \A i \in 1..Len(ls) : NotHeading(ls[i]) => out[i] = ls[i]

C8_Witness ==
    /\ fpc = "done" /\ fshift = 1 /\ fshift2 = 2 /\ fout # None
    /\ fout1 # fout /\ fout2 # fout1
    /\ \E i \in 1..Len(split_inclusive(fout[1])) :
          NotHeading(split_inclusive(fout[1])[i])

\* C9: indentation stripping is idempotent: when handle_indentation(t)
\* returns a text s, handle_indentation(s) returns s again; so the second
\* pass extract_file_doc makes over a structured doc comment changes
\* nothing.
C9_IndentationIdempotent ==
    fpc # "start" =>
        /\ \A o \in {fdoc, flegacy} \ {None} :
              LET s == handle_indentation(o[1])
              IN  s # None => handle_indentation(s[1]) = s
        /\ (fdoc # None /\ handle_indentation(fdoc[1]) # None)
              => fout = handle_indentation(fdoc[1])

----------------------------------------------------------------------------
(* Claims about the scope resolver and the comment extractor.              *)

\* the expression of the module below a leading function head
TopExpr == IF root.expr.kind = "lambda" THEN root.expr.body ELSE root.expr

\* the module with that expression replaced
WithTop(e) ==
    IF root.expr.kind = "lambda" THEN Root(Lambda(root.expr.param, e)) ELSE Root(e)

Documented(b) == b.kind = "apv" /\ (b.doc # None \/ b.legacy # None)

\* what a documented binding is expected to give
ExpectedComment(b) ==
    IF b.doc # None
    THEN [doc |-> shift_headings(UnwrapOr(handle_indentation(b.doc[1]), <<>>), 2),
          doc_type |-> None, example |-> None]
    ELSE parse_doc_comment(b.legacy[1])

ExpectedArgs(b) ==
    IF b.doc = None /\ b.value.kind = "lambda"
    THEN collect_lambda_args_legacy(b.value) ELSE <<>>

ExpectedEntry(b) ==
    [args |-> ExpectedArgs(b), category |-> Category, location |-> None,
     description |-> ExpectedComment(b).doc,
     example |-> ExpectedComment(b).example,
     fn_type |-> ExpectedComment(b).doc_type,
     name |-> b.name, prefix |-> Prefix]

DocumentedAt(es, name) ==
    {i \in 1..Len(es) : Documented(es[i]) /\ es[i].name = name}

SetMax(S) == CHOOSE y \in S : \A z \in S : z <= y

\* Scope: the documented bindings among es keyed by name, the last one of a name
ScopeOf(es) ==
    [name \in {es[i].name : i \in {j \in 1..Len(es) : Documented(es[j])}} |->
        ExpectedEntry(es[SetMax(DocumentedAt(es, name))])]

\* the walk over the export list
RECURSIVE ExportWalk(_, _)
ExportWalk(names_, scope) ==
    IF names_ = <<>> THEN <<>>
    ELSE (IF Head(names_) \in DOMAIN scope THEN <<scope[Head(names_)]>> ELSE <<>>)
         \o ExportWalk(Tail(names_), scope)

Perms(n) == {p \in [1..n -> 1..n] : \A i, j \in 1..n : p[i] = p[j] => i = j}
Permuted(es, p) == [i \in 1..Len(es) |-> es[p[i]]]

DistinctDocumented(es) ==
    \A i, j \in 1..Len(es) :
        Documented(es[i]) /\ Documented(es[j]) /\ es[i].name = es[j].name => i = j

NamesOf(es) == [i \in 1..Len(es) |-> es[i].name]

ExportCase == cpc = "collected" /\ export # None /\ TopExpr.kind = "letin"

\* the export walk, and the let body has no part in it
ExportWalkOnly ==
    /\ entries = ExportWalk(export[1], ScopeOf(TopExpr.entries))
    /\ \A b \in Bodies :
          collect_entries(WithTop(LetIn(TopExpr.entries, b)),
                          Prefix, Category, Locs, export) = Ok(entries)

OrderIndependent ==
    \A p \in Perms(Len(TopExpr.entries)) :
        collect_entries(WithTop(LetIn(Permuted(TopExpr.entries, p), TopExpr.body)),
                        Prefix, Category, Locs, export) = Ok(entries)

\* C1 as stated: with an export list, on a module whose first scope node is
\* a let-in, the result is the walk over the export list taking the Scope
\* entry of each name and dropping the names Scope has not, the let body is
\* never inspected, and the result does not depend on the order of the
\* bindings in the let block.
C1_AnyOrder == ExportCase => ExportWalkOnly /\ OrderIndependent

\* C1: with an export list, on a module whose first scope node is a let-in,
\* the result is the walk over the export list taking the Scope entry of
\* each name and dropping the names Scope has not; of several documented
\* bindings of one name Scope holds the last; the let body is never
\* inspected; the result does not depend on the order of the bindings of the
\* let block as long as no two documented bindings have the same name.
C1_ExportWalk ==
    ExportCase =>
        /\ ExportWalkOnly
        /\ DistinctDocumented(TopExpr.entries) => OrderIndependent

C1_Witness ==
    /\ ExportCase
    /\ export = Some(<<NameB, NameA>>)
    /\ Len(TopExpr.entries) = 2
    /\ NamesOf(TopExpr.entries) = <<NameA, NameB>>
    /\ NamesOf(entries) = <<NameB, NameA>>
    /\ TopExpr.body = SetOfC

\* the names of the export list that are documented bindings of the let block
RECURSIVE ExportedNames(_, _)
ExportedNames(names_, es) ==
    IF names_ = <<>> THEN <<>>
    ELSE (IF DocumentedAt(es, Head(names_)) # {} THEN <<Head(names_)>> ELSE <<>>)
         \o ExportedNames(Tail(names_), es)

FirstNamed(es, name) ==
    LET at == {i \in 1..Len(es) : es[i].kind = "apv" /\ es[i].name = name}
    IN  IF at = {} THEN None ELSE Some(es[SetMin(at)])

\* the attribute set whose bindings are collected, where the module shows it
\* directly: the module itself, the body of the let block, the result of a
\* function that is the body, or the binding the body names
SelectedOf(e) ==
    IF e.kind = "attrset" THEN Some(e)
    ELSE IF e.kind # "letin" THEN None
    ELSE IF e.body.kind = "attrset" THEN Some(e.body)
    ELSE IF e.body.kind = "lambda" /\ e.body.body.kind = "attrset"
    THEN Some(e.body.body)
    ELSE IF e.body.kind = "ident"
            /\ FirstNamed(e.entries, e.body.name) # None
            /\ FirstNamed(e.entries, e.body.name)[1].value.kind = "attrset"
    THEN Some(FirstNamed(e.entries, e.body.name)[1].value)
    ELSE None

Selected == SelectedOf(TopExpr)
SelectedScope ==
    IF TopExpr.kind = "letin" THEN ScopeOf(TopExpr.entries) ELSE EmptyMap

\* what one child of the attribute set contributes
ChildContribution(c, scope) ==
    IF c.kind = "apv"
    THEN IF Documented(c) THEN <<ExpectedEntry(c)>> ELSE <<>>
    ELSE IF c.from # None THEN <<>>
    ELSE Concat([i \in 1..Len(c.attrs) |->
                    IF c.attrs[i].kind = "attr_ident"
                       /\ c.attrs[i].name \in DOMAIN scope
                    THEN <<scope[c.attrs[i].name]>> ELSE <<>>])

RemoveAt(s, i) == Take(s, i - 1) \o Drop(s, i)
InsertAt(s, i, x) == Take(s, i - 1) \o <<x>> \o Drop(s, i - 1)

Undocumented ==
    {AttrpathValue(NameB, None, None, Lit),
     AttrpathValue(NameC, None, None, NestedSet)}

BindingsCase ==
    /\ cpc = "collected"
    /\ Selected # None
    /\ TopExpr.kind = "letin" => export = None

Collected(cs) ==
    collect_bindings(AttrSet(cs), Prefix, Category, Locs, SelectedScope)

\* C6: the entries are what the direct children of the selected attribute
\* set contribute, in the order of the children: a binding contributes an
\* entry if and only if it has a structured or a legacy comment; removing
\* an undocumented binding or adding one anywhere changes nothing; so does
\* taking away the attribute set a binding has as its value: bindings
\* nested deeper produce no entries.
C6_UndocumentedOmitted ==
    BindingsCase =>
        LET cs == Selected[1].children
        IN  /\ entries = Concat([i \in 1..Len(cs) |->
                                    ChildContribution(cs[i], SelectedScope)])
            /\ \A i \in 1..Len(cs) :
                  /\ cs[i].kind = "apv" /\ ~Documented(cs[i])
                        => Collected(RemoveAt(cs, i)) = entries
                  /\ cs[i].kind = "apv" /\ cs[i].value.kind = "attrset"
                        => Collected([cs EXCEPT ![i].value = Lit]) = entries
            /\ \A i \in 1..(Len(cs) + 1), u \in Undocumented :
                  Collected(InsertAt(cs, i, u)) = entries

C6_Witness ==
    /\ BindingsCase
    /\ Len(Selected[1].children) = 2
    /\ ~Documented(Selected[1].children[1])
    /\ Selected[1].children[1].kind = "apv"
    /\ Selected[1].children[2].kind = "apv"
    /\ Selected[1].children[2].value.kind = "attrset"
    /\ NamesOf(entries) = <<NameB>>

\* the bindings of the module that collect_entries looks at
BindingsSeen ==
    {b \in (IF TopExpr.kind = "letin"
            THEN {TopExpr.entries[i] : i \in 1..Len(TopExpr.entries)} ELSE {})
           \cup (IF Selected # None
                 THEN {Selected[1].children[i] :
                          i \in 1..Len(Selected[1].children)}
                 ELSE {}) :
        b.kind = "apv"}

\* C7: for every binding: with a structured comment attached
\* retrieve_doc_item gives the structured text and no type and no example,
\* whatever legacy comment there is; without a structured comment it gives
\* what the legacy comment parses to; with neither it gives nothing and the
\* binding has no entry.  The entries collected show it.
C7_StructuredFirst ==
    cpc = "collected" =>
        /\ \A b \in BindingsSeen :
              /\ b.doc # None =>
                    /\ retrieve_doc_item(b) # None
                    /\ retrieve_doc_item(b)[1].variant = "DocItem"
                    /\ retrieve_doc_item(b)[1].comment =
                          [doc |-> retrieve_doc_comment(b.doc, Some(2))[1],
                           doc_type |-> None, example |-> None]
              /\ b.doc = None /\ b.legacy # None =>
                    /\ retrieve_doc_item(b) # None
                    /\ retrieve_doc_item(b)[1].variant = "LegacyDocItem"
                    /\ retrieve_doc_item(b)[1].comment
                          = parse_doc_comment(b.legacy[1])
              /\ b.doc = None /\ b.legacy = None =>
                    /\ retrieve_doc_item(b) = None
                    /\ collect_entry_information(b) = None
        /\ BindingsCase =>
              \A i \in 1..Len(Selected[1].children) :
                 LET b == Selected[1].children[i]
                     before == Concat([j \in 1..(i - 1) |->
                                  ChildContribution(Selected[1].children[j],
                                                    SelectedScope)])
                 IN  b.kind = "apv" /\ b.doc # None =>
                        /\ Len(entries) > Len(before)
                        /\ entries[Len(before) + 1].name = b.name
                        /\ entries[Len(before) + 1].fn_type = None
                        /\ entries[Len(before) + 1].example = None
                        /\ entries[Len(before) + 1].description =
                              shift_headings(
                                 UnwrapOr(handle_indentation(b.doc[1]), <<>>), 2)

C7_Witness ==
    /\ BindingsCase
    /\ Len(Selected[1].children) = 1
    /\ Selected[1].children[1].kind = "apv"
    /\ Selected[1].children[1].doc = Some(DocOther)
    /\ Selected[1].children[1].legacy = Some(LegacyTyped)
    /\ Len(entries) = 1
    /\ entries[1].description = DocOther
    /\ entries[1].fn_type = None

----------------------------------------------------------------------------
(* Claims about the option renderer.                                       *)

Bucket(seg) ==
    IF Len(seg) >= 6 /\ SubSeq(seg, 1, 6) = EnablePrefix THEN 0
    ELSE IF Len(seg) >= 7 /\ SubSeq(seg, 1, 7) = PackagePrefix THEN 1
    ELSE 2

\* s is lexicographically before t
LexBefore(s, t) ==
    \E k \in 1..(Len(s) + 1) :
        /\ k <= Len(t) + 1
        /\ \A i \in 1..(k - 1) : s[i] = t[i]
        /\ \/ k = Len(s) + 1 /\ k <= Len(t)
           \/ k <= Len(s) /\ k <= Len(t) /\ Byte(s[k]) < Byte(t[k])

SegBefore(s, t) ==
    Bucket(s) < Bucket(t) \/ (Bucket(s) = Bucket(t) /\ LexBefore(s, t))

\* path pa is before path pb: at the first segment where they differ the
\* segment of pa is before that of pb, or pa is a proper prefix of pb
PathBefore(pa, pb) ==
    \E k \in 1..(Len(pa) + 1) :
        /\ k <= Len(pb) + 1
        /\ \A i \in 1..(k - 1) : pa[i] = pb[i]
        /\ \/ k = Len(pa) + 1 /\ k <= Len(pb)
           \/ k <= Len(pa) /\ k <= Len(pb) /\ SegBefore(pa[k], pb[k])

NameBefore(a, b) == PathBefore(split(a, "."), split(b, "."))

SectionHeading(name) == <<"#", "#", " ", Backtick>> \o name \o <<Backtick, " ", "{", "#">>

\* C3: the sections are emitted in the order of the names: split on '.',
\* compared segment by segment, a segment starting with enable before one
\* starting with package before any other, segments of one bucket
\* lexicographically, a path that is a prefix of another first: names holds
\* the keys in that order and the i-th section emitted is the section of
\* the i-th name; svc.enable, svc.package, svc.port are rendered in that
\* order.
C3_SectionsInNameOrder ==
    opc # "start" =>
        /\ Len(names) = Len(keys)
        /\ {names[i] : i \in 1..Len(names)} = DOMAIN options
        /\ \A i, j \in 1..Len(names) : i < j => NameBefore(names[i], names[j])
        /\ Len(output) <= Len(names)
        /\ opc = "done" => Len(output) = Len(names)
        /\ \A i \in 1..Len(output) :
              /\ starts_with(output[i], SectionHeading(names[i]))
              /\ output[i] = render_option(names[i], options[names[i]], RenderOpts)
        /\ DOMAIN options = {SvcEnable, SvcPackage, SvcPort}
              => names = <<SvcEnable, SvcPackage, SvcPort>>

C3_Witness ==
    /\ opc = "done"
    /\ keys = <<SvcPort, SvcPackage, SvcEnable>>
    /\ names = <<SvcEnable, SvcPackage, SvcPort>>
    /\ Len(output) = 3
    /\ starts_with(output[3], SectionHeading(SvcPort))

Flip(o) == CASE o = "Less" -> "Greater" [] o = "Greater" -> "Less" [] OTHER -> "Equal"

\* C4: compare_option_names is a strict total order on the option names:
\* comparing b with a gives the opposite of comparing a with b, Equal is
\* given for a name and itself only, Less is transitive; so whatever the
\* order in which the hash map iterates, the names are sorted to the same
\* sequence and the document rendered is the same. (Every order of the keys
\* is tried from the run of each option set whose keys come out in order.)
C4_OrderDeterministic ==
    /\ opc = "sorted" /\ output = <<>> /\ keys = names =>
          /\ \A a, b \in DOMAIN options :
                /\ compare_option_names(a, b) = Flip(compare_option_names(b, a))
                /\ compare_option_names(a, b) = "Equal" <=> a = b
          /\ \A a, b, c \in DOMAIN options :
                compare_option_names(a, b) = "Less"
                /\ compare_option_names(b, c) = "Less"
                   => compare_option_names(a, c) = "Less"
          /\ \A p \in Perms(Len(keys)) : sort_by(Permuted(keys, p)) = names
    /\ opc = "done" /\ keys = names =>
          \A p \in Perms(Len(keys)) :
             render_options_to_commonmark(options, Permuted(keys, p), RenderOpts)
                = Concat(output)

C4_Witness ==
    /\ opc = "done"
    /\ keys = names
    /\ Len(keys) = 3
    /\ names[1] = <<"s", "v", "c">>
    /\ SvcPort \in DOMAIN options
    /\ render_options_to_commonmark(options, <<keys[3], keys[1], keys[2]>>, RenderOpts)
          = Concat(output)
    /\ Len(output) = 3

----------------------------------------------------------------------------
(* Claims about the title and the identifier of an entry.                  *)

\* the name with every ' replaced by -prime
RECURSIVE Primed(_)
Primed(n) ==
    IF n = <<>> THEN <<>>
    ELSE IF Head(n) = "'" THEN <<"-", "p", "r", "i", "m", "e">> \o Primed(Tail(n))
    ELSE <<Head(n)>> \o Primed(Tail(n))

\* the parts put together with a separator between the parts that are not empty
Dotted(p, c, n) ==
    (IF p = <<>> THEN <<>> ELSE p \o <<".">>)
    \o (IF c = <<>> THEN <<>> ELSE c \o <<".">>)
    \o n

----------------------------------------------------------------------------
(* Claims about render_option.                                             *)

ends_with(s, p) == Len(s) >= Len(p) /\ Drop(s, Len(s) - Len(p)) = p

\* u without its trailing slashes
StripSlashes(u) ==
    LET keep == {i \in 1..Len(u) : u[i] # "/"}
    IN  IF keep = {} THEN <<>> ELSE Take(u, SetMax(keep))

Link(text, url) == <<"-", " ", "[">> \o text \o <<"]", "(">> \o url \o <<")", "\n">>

ExpectedDeclaration(decl, opts) ==
    IF decl.variant = "Named" /\ decl.url # None
    THEN Link(md_escape(decl.name), decl.url[1])
    ELSE IF opts.declarations_base_url # None
    THEN Link(md_escape(decl.name),
              StripSlashes(opts.declarations_base_url[1]) \o <<"/", "b", "l", "o", "b", "/">>
              \o (IF opts.revision = None THEN <<"m", "a", "s", "t", "e", "r">> ELSE opts.revision[1])
              \o <<"/">> \o decl.name)
    ELSE <<"-", " ", Backtick>> \o decl.name \o <<Backtick, "\n">>

ExpectedDeclarations(opt, opts) ==
    IF ~opts.include_declarations \/ Len(opt.declarations) = 0 THEN <<>>
    ELSE <<"*", "*", "D", "e", "c", "l", "a", "r", "e", "d", " ", "b", "y", ":", "*", "*", "\n", "\n">>
         \o Concat([i \in 1..Len(opt.declarations) |->
                       ExpectedDeclaration(opt.declarations[i], opts)])
         \o <<"\n">>

\* C11: the section render_option returns ends with the declaration list,
\* one line per declaration in order: a link to the declaration's own URL
\* when it has one, else a link to <base without trailing slashes>/blob/
\* <revision or master>/<path> when a base URL is configured, else the
\* code-styled path; what precedes the list is the section of the same
\* option without declarations, and the list is absent altogether when
\* include_declarations is false or there is no declaration.
C11_DeclarationPrecedence ==
    rpc = "done" =>
        /\ ends_with(rendered, ExpectedDeclarations(ropt, ropts))
        /\ Take(rendered, Len(rendered) - Len(ExpectedDeclarations(ropt, ropts)))
              = render_option(rname, [ropt EXCEPT !.declarations = <<>>], ropts)

C11_Witness ==
    /\ rpc = "done"
    /\ ropt.declarations = <<Named(<<"c", ".", "n", "i", "x">>, Some(DeclUrl)), Path(ModA)>>
    /\ ropts.include_declarations
    /\ ropts.declarations_base_url = Some(<<"h", "t", "t", "p", "s", ":", "/", "/", "h", "/", "r", "/", "/">>)
    /\ ropts.revision = None
    /\ ends_with(rendered,
          <<"*", "*", "D", "e", "c", "l", "a", "r", "e", "d", " ", "b", "y", ":", "*", "*", "\n", "\n", "-", " ", "[", "c", ".", "n", "i", "x", "]", "(", "h", "t", "t", "p", "s", ":", "/", "/", "x", "/", "b", ")", "\n", "-", " ", "[", "m", "\\", "_", "a", ".", "n", "i", "x", "]", "(", "h", "t", "t", "p", "s", ":", "/", "/", "h", "/", "r", "/", "b", "l", "o", "b", "/", "m", "a", "s", "t", "e", "r", "/", "m", "_", "a", ".", "n", "i", "x", ")", "\n", "\n">>)

----------------------------------------------------------------------------
(* Claims about default and example values.                                *)

Inline(t) == <<Backtick>> \o t \o <<Backtick>>
Fenced(t) == <<Backtick, Backtick, Backtick, "n", "i", "x", "\n">> \o t \o <<"\n", Backtick, Backtick, Backtick>>
ObjectPlaceholder == <<Backtick, "{", " ", ".", ".", ".", " ", "}", Backtick>>
NullText == <<Backtick, "n", "u", "l", "l", Backtick>>

\* the JSON text of the items and numbers of the model
ItemText(v) ==
    CASE v = String(<<"a">>) -> <<"\"", "a", "\"">>
      [] v = String(<<"b">>) -> <<"\"", "b", "\"">>
      [] v = Number(0) -> <<"0">>
      [] v = Number(1) -> <<"1">>
      [] v = Number(42) -> <<"4", "2">>
      [] v = Bool(TRUE) -> <<"t", "r", "u", "e">>
      [] v = Bool(FALSE) -> <<"f", "a", "l", "s", "e">>
      [] v = Null -> <<"n", "u", "l", "l">>
      [] v = Map(<<>>) -> <<"{", "}">>
      [] v = Array(<<>>) -> <<"[", "]">>

RECURSIVE Spaced(_)
Spaced(items) ==
    IF items = <<>> THEN <<>> ELSE <<" ">> \o ItemText(Head(items)) \o Spaced(Tail(items))

\* the rendering the claim gives for each shape (TRUE where it gives none)
RendersByShape(v, t) ==
    CASE v.variant = "Tagged" /\ v.value_type = LiteralExpression /\ v.text # None ->
            IF \E i \in 1..Len(v.text[1]) : v.text[1][i] = "\n"
            THEN t = Fenced(v.text[1]) ELSE t = Inline(v.text[1])
      [] v.variant = "Tagged" /\ v.value_type = LiteralMD /\ v.text # None -> t = v.text[1]
      [] v.variant = "String" -> t = Inline(<<"\"">> \o v.s \o <<"\"">>)
      [] v.variant \in {"Bool", "Number"} -> t = Inline(ItemText(v))
      [] v.variant = "Array" -> t = Inline(<<"[">> \o Spaced(v.arr) \o <<" ", "]">>)
      [] OTHER -> TRUE

WellTagged(j) ==
    /\ "_type" \in DOMAIN j.fields
    /\ j.fields["_type"].variant = "String"
    /\ "text" \in DOMAIN j.fields => j.fields["text"].variant \in {"String", "Null"}

ShapeVariant(j) ==
    IF j.variant = "Object" THEN (IF WellTagged(j) THEN "Tagged" ELSE "Object")
    ELSE j.variant

UnknownTag(v) ==
    v.variant = "Tagged" /\ v.value_type \notin {LiteralExpression, LiteralMD}

\* C13: every JSON value given as a default is accepted and classified
\* into the OptionValue variant of its shape (string, boolean, number,
\* array, tagged object, other object, null), format_option_value renders
\* it, an object of unrecognized shape renders as the object placeholder
\* and an unknown _type as the placeholder naming the tag.
C13_ClassifiedByShape ==
    vpc = "done" /\ json # None =>
        /\ parsed # None
        /\ parsed[1].variant = ShapeVariant(json[1])
        /\ value_text # None
        /\ ShapeVariant(json[1]) = "Object" => value_text = Some(ObjectPlaceholder)
        /\ UnknownTag(parsed[1]) =>
              value_text = Some(Inline(<<"<">> \o parsed[1].value_type \o <<">", ":", " ">>
                                       \o UnwrapOr(parsed[1].text, <<".", ".", ".">>)))

----------------------------------------------------------------------------
(* Claims about a run of main.                                             *)

\* an options file that does not match the schema: no JSON, no object, or
\* an option of a shape OptionDef does not accept
FailsDeserialization(doc) ==
    \/ doc \in {SyntaxError, String(<<"a">>), Array(<<>>), Null}
    \/ \E k \in DOMAIN doc.fields : doc.fields[k] \in BadOptionJsons

Called(f) == \E i \in 1..Len(calls) : calls[i] = f

\* C14: when the options JSON fails deserialization the run goes from the
\* parse straight to exit(1): render_options_document is never called and
\* nothing is written; when the module has parse errors the run panics
\* right after the parse: no entry is collected and nothing is written.
C14_FatalNoPartialOutput ==
    /\ cmd = "options" /\ FailsDeserialization(input) =>
          /\ ~Called("render_options_document")
          /\ loaded = None /\ result = None /\ written = None
          /\ mpc \in {"start", "exited"}
          /\ mpc = "exited" => status = "exit(1)"
    /\ cmd = "legacy" /\ input.errors =>
          /\ ~Called("collect_entries") /\ ~Called("retrieve_description")
          /\ loaded = None /\ result = None /\ written = None
          /\ mpc \in {"start", "exited"}
          /\ mpc = "exited" => status = "panic"

C14_Witness ==
    /\ cmd = "options"
    /\ input = Map(SvcEnable :> GoodOption @@ SvcPort :> Map("type" :> Number(1)))
    /\ mpc = "exited"
    /\ status = "exit(1)"
    /\ written = None

----------------------------------------------------------------------------
(* Claims about the steps of the legacy scanner.                           *)

\* what a step on line l does, ty and ex telling whether l is a Type: or
\* an Example: marker line
StepEffect(l, ty, ex) ==
    /\ ty => /\ state' = "Type"
             /\ type_str' = type_str \o AfterMarker(l, TypeMarker) \o <<"\n">>
             /\ doc_str' = doc_str /\ example_str' = example_str
    /\ ~ty /\ ex => /\ state' = "Example"
                    /\ example_str' = example_str \o AfterMarker(l, ExampleMarker) \o <<"\n">>
                    /\ doc_str' = doc_str /\ type_str' = type_str
    /\ ~ty /\ ~ex =>
          /\ state' = state
          /\ doc_str' = IF state = "Doc" THEN doc_str \o l ELSE doc_str
          /\ type_str' = IF state = "Type" THEN type_str \o l ELSE type_str
          /\ example_str' = IF state = "Example" THEN example_str \o l ELSE example_str
    /\ state # "Doc" => state' # "Doc" /\ doc_str' = doc_str

\* C15 as stated: the scanner starts in Doc; a line is a marker line
\* exactly when the line itself begins with Type: or Example:.
C15_MarkerLiteral ==
    /\ state = "Doc"
    /\ [][lines # <<>> /\ lines' = Tail(lines) =>
            StepEffect(Head(lines), starts_with(Head(lines), TypeMarker),
                       starts_with(Head(lines), ExampleMarker))]_vars

\* C15 (amended): the scanner starts in Doc; a line switches to Type
\* exactly when, trimmed of leading and trailing whitespace, it begins with
\* Type:, to Example exactly when, trimmed, it begins with Example:; the
\* rest of the trimmed line goes to that section's buffer as a line of its
\* own; every other line is appended as it is to the buffer of the current
\* state; the state never returns to Doc and after a marker the
\* documentation buffer no longer changes.
C15_MarkerTrimmed ==
    /\ state = "Doc"
    /\ [][lines # <<>> /\ lines' = Tail(lines) =>
            StepEffect(Head(lines), IsTypeLine(Head(lines)),
                       IsExampleLine(Head(lines)))]_vars

C15_Witness ==
    /\ lpc = "scan"
    /\ lines = <<>>
    /\ state = "Type"
    /\ doc_str = LineDoesX \o <<"\n">>
    /\ type_str = <<"t", "\n">> \o LineMore \o <<"\n">> \o LineNotAMarker

----------------------------------------------------------------------------
(* Claims about alias resolution and scope selection.                      *)

\* a let block without an export list whose body is a bare identifier
IdentBodyCase ==
    /\ TopExpr.kind = "letin"
    /\ TopExpr.body.kind = "ident"
    /\ export = None

\* C16: for every let block whose body is a bare identifier,
\* resolve_let_ident terminates, with a value that is not an identifier or
\* with the chain unresolved (a chain that names a missing binding, a chain
\* that refers back to itself), and collect_entries then returns a list of
\* entries: the run is never aborted.
C16_ResolutionNeverFails ==
    IdentBodyCase /\ cpc # "start" =>
        /\ resolve_let_ident(TopExpr, TopExpr.body, 0).tag \in {"Some", "None"}
        /\ cpc = "collected"

\* the value the chain of aliases starting at name ends at, following at
\* most n bindings: nothing when a name of the chain is not bound in the let
\* block or the chain does not end
RECURSIVE ChainEnd(_, _, _)
ChainEnd(es, name, n) ==
    IF n = 0 \/ FirstNamed(es, name) = None THEN None
    ELSE IF FirstNamed(es, name)[1].value.kind = "ident"
    THEN ChainEnd(es, FirstNamed(es, name)[1].value.name, n - 1)
    ELSE Some(FirstNamed(es, name)[1].value)

\* the number of aliases between the body and the value it stands for
RECURSIVE ChainLength(_, _, _)
ChainLength(es, name, n) ==
    IF n = 0 \/ FirstNamed(es, name) = None THEN 0
    ELSE IF FirstNamed(es, name)[1].value.kind = "ident"
    THEN 1 + ChainLength(es, FirstNamed(es, name)[1].value.name, n - 1)
    ELSE 0

BodyValue == ChainEnd(TopExpr.entries, TopExpr.body.name, Len(TopExpr.entries))

\* C17: without an export list, when the let body is a bare identifier and
\* the chain of aliases starting at it ends at a value that is not an
\* identifier, the run is not aborted and collect_entries returns exactly
\* the entries the same let block gives with that value written as its
\* body; when the value is an attribute set these are the contributions of
\* its children, with the inherit clauses looked up in the Scope of the let
\* block.
C17_AliasChain ==
    IdentBodyCase /\ BodyValue # None =>
        /\ cpc # "aborted"
        /\ cpc = "collected" =>
              /\ Ok(entries) =
                    collect_entries(WithTop(LetIn(TopExpr.entries, BodyValue[1])),
                                    Prefix, Category, Locs, None)
              /\ BodyValue[1].kind = "attrset" =>
                    entries = Concat([i \in 1..Len(BodyValue[1].children) |->
                                 ChildContribution(BodyValue[1].children[i],
                                                   ScopeOf(TopExpr.entries))])

C17_Witness ==
    /\ IdentBodyCase
    /\ cpc = "collected"
    /\ ChainLength(TopExpr.entries, TopExpr.body.name, Len(TopExpr.entries)) = 2
    /\ BodyValue = Some(SetOfAll)
    /\ NamesOf(entries) = <<NameB, NameA, NameC>>
    /\ entries[2].description = DocOther

\* the first attribute set a pre-order walk of e enters, e included
FirstAttrSet(e) == FirstOfKind(Preorder(e, FALSE), {"attrset"})

\* the let body after alias resolution: the value the chain ends at, the
\* body itself when it is no identifier or the chain is unresolved
ResolvedBody ==
    IF TopExpr.body.kind = "ident" /\ BodyValue # None THEN BodyValue[1]
    ELSE TopExpr.body

\* a run on a let block without an export list that is over; the run that
\* was aborted has produced no entries
LetBodyCase ==
    /\ cpc \in {"collected", "aborted"}
    /\ TopExpr.kind = "letin"
    /\ export = None

\* C18 as stated: without an export list collect_entries produces entries
\* only when the let body, after alias resolution, is an attribute-set
\* node; for any other kind of expression the result is empty.
C18_OnlyAttrSetBody ==
    LetBodyCase /\ ResolvedBody.kind # "attrset" => entries = <<>>

\* C18: without an export list the entries of a let block are the
\* contributions of the children of the first attribute set that a
\* pre-order walk of the body, after alias resolution, enters: the body
\* itself when it is an attribute set, otherwise the first one nested in it
\* (the set a function returns); no entries are produced when the (possibly
\* resolved) body holds no attribute set.
C18_FirstAttrSetOfBody ==
    LetBodyCase =>
        IF FirstAttrSet(ResolvedBody) = None THEN entries = <<>>
        ELSE entries =
                Concat([i \in 1..Len(FirstAttrSet(ResolvedBody)[1].children) |->
                   ChildContribution(FirstAttrSet(ResolvedBody)[1].children[i],
                                     ScopeOf(TopExpr.entries))])

C18_Witness ==
    /\ LetBodyCase
    /\ cpc = "collected"
    /\ TopExpr.body.kind = "ident"
    /\ ResolvedBody.kind = "lambda"
    /\ FirstAttrSet(ResolvedBody) = Some(SetOfAll)
    /\ NamesOf(entries) = <<NameB, NameA, NameC>>

\* the attribute set whose children collect_bindings goes through, and the
\* Scope it is given: for a let block without an export list the first set
\* of the resolved body and the documented bindings of the block, for a
\* module that begins with an attribute set that set and the empty Scope
SeenSet ==
    IF TopExpr.kind = "attrset" THEN Some(TopExpr)
    ELSE IF TopExpr.kind = "letin" /\ export = None
    THEN FirstAttrSet(ResolvedBody)
    ELSE None
SeenScope ==
    IF TopExpr.kind = "letin" THEN ScopeOf(TopExpr.entries) ELSE EmptyMap

\* the identifiers of a bare inherit clause that the Scope has, as written
InheritedNames(c, scope) ==
    LET InScope(a) == a.kind = "attr_ident" /\ a.name \in DOMAIN scope
    IN  IF c.from # None THEN <<>> ELSE NamesOf(SelectSeq(c.attrs, InScope))

\* what the clause contributes: the Scope entry of each of them
Inherited(c, scope) ==
    [k \in 1..Len(InheritedNames(c, scope)) |-> scope[InheritedNames(c, scope)[k]]]

\* what a child that is no inherit clause contributes
OwnEntries(c) == collect_bindings(AttrSet(<<c>>), Prefix, Category, Locs, EmptyMap)

IsBinding(c) == c.kind = "apv"

InheritCase == cpc = "collected" /\ SeenSet # None

\* C19: the entries collected from an attribute set are, child by child in
\* the order of the children, the entry of a binding, and for a bare
\* inherit clause the unchanged Scope entries of those of its identifiers
\* that the Scope has, in the order they are written: identifiers the Scope
\* has not, and targets that are not identifiers, contribute nothing; an
\* inherit clause with a source contributes nothing; under the empty Scope
\* of a module that begins with an attribute set the entries are those of
\* its bindings alone.
C19_InheritFromScope ==
    InheritCase =>
        /\ entries =
              Concat([i \in 1..Len(SeenSet[1].children) |->
                        IF SeenSet[1].children[i].kind = "inherit"
                        THEN Inherited(SeenSet[1].children[i], SeenScope)
                        ELSE OwnEntries(SeenSet[1].children[i])])
        /\ TopExpr.kind = "attrset" =>
              entries = collect_bindings(
                           AttrSet(SelectSeq(SeenSet[1].children, IsBinding)),
                           Prefix, Category, Locs, EmptyMap)

C19_Witness ==
    /\ InheritCase
    /\ TopExpr.kind = "letin"
    /\ DOMAIN SeenScope = {NameA, NameB}
    /\ SeenSet[1].children =
          <<Inherit(None, <<AttrStr(NameA), AttrIdent(NameC)>>),
            Inherit(None, <<AttrIdent(NameA), AttrIdent(NameB)>>)>>
    /\ entries = <<SeenScope[NameA], SeenScope[NameB]>>

\* the first let-in or attribute set of the module in document order, found
\* by descending into the children of every node that is neither, patterns
\* left out
RECURSIVE FirstScope(_)
RECURSIVE FirstScopeAmong(_)
FirstScope(n) ==
    IF n.kind \in {"letin", "attrset"} THEN Some(n)
    ELSE IF n.kind = "pattern" THEN None
    ELSE FirstScopeAmong(Children(n))
FirstScopeAmong(ns) ==
    IF ns = <<>> THEN None
    ELSE IF FirstScope(Head(ns)) # None THEN FirstScope(Head(ns))
    ELSE FirstScopeAmong(Tail(ns))

\* the nodes of a kind anywhere below n, patterns included
RECURSIVE NodesBelow(_, _)
RECURSIVE NodesAmong(_, _)
NodesBelow(n, kinds) ==
    (IF n.kind \in kinds THEN {n} ELSE {}) \cup NodesAmong(Children(n), kinds)
NodesAmong(ns, kinds) ==
    IF ns = <<>> THEN {}
    ELSE NodesBelow(Head(ns), kinds) \cup NodesAmong(Tail(ns), kinds)

\* the bindings of an attribute set with every value replaced by a literal
Flattened(cs) ==
    [i \in 1..Len(cs) |->
        IF cs[i].kind = "apv" /\ cs[i].value.kind # "lambda"
        THEN [cs[i] EXCEPT !.value = Lit] ELSE cs[i]]

----------------------------------------------------------------------------
(* Claims about argument lists.                                            *)

\* how many functions stand one inside the other at the head of v
RECURSIVE LambdaDepth(_)
LambdaDepth(v) == IF v.kind = "lambda" THEN 1 + LambdaDepth(v.body) ELSE 0

\* the k-th of them, counted from the outside
RECURSIVE NthLambda(_, _)
NthLambda(v, k) == IF k = 1 THEN v ELSE NthLambda(v.body, k - 1)

\* the argument list a documented binding is to have
ArgsFor(b) ==
    IF b.doc # None THEN <<>>
    ELSE [k \in 1..LambdaDepth(b.value) |-> NthLambda(b.value, k).param]

\* the binding a Scope entry was made from
ScopeBinding(es, name) == es[SetMax(DocumentedAt(es, name))]

\* the argument lists of what one child contributes
ChildArgs(c) ==
    IF c.kind = "apv"
    THEN IF Documented(c) THEN <<ArgsFor(c)>> ELSE <<>>
    ELSE [k \in 1..Len(InheritedNames(c, SeenScope)) |->
             ArgsFor(ScopeBinding(TopExpr.entries, InheritedNames(c, SeenScope)[k]))]

ArgsOf(es) == [i \in 1..Len(es) |-> es[i].args]

----------------------------------------------------------------------------
(* Claims about the layout of an option section.                           *)

\* the option with nothing but its name
NoFields ==
    [option_type |-> None, read_only |-> FALSE, default |-> None,
     description |-> None, example |-> None, related_packages |-> None,
     declarations |-> <<>>]

\* the heading: what render_option gives for an option without fields
OnlyHeading == render_option(rname, NoFields, ropts)

\* what the section of an option with these fields alone has after the heading
After(opt) == Drop(render_option(rname, opt, ropts), Len(OnlyHeading))

TypeAlone ==
    After([NoFields EXCEPT !.option_type = ropt.option_type,
                           !.read_only = ropt.read_only])
DefaultAlone == After([NoFields EXCEPT !.default = ropt.default])
DescriptionAlone == After([NoFields EXCEPT !.description = ropt.description])
ExampleAlone == After([NoFields EXCEPT !.example = ropt.example])
RelatedAlone == After([NoFields EXCEPT !.related_packages = ropt.related_packages])
DeclarationsAlone == After([NoFields EXCEPT !.declarations = ropt.declarations])

DescriptionText == IF ropt.description = None THEN <<>> ELSE ropt.description[1].text

ReadOnlyMarker == <<" ", "*", "(", "r", "e", "a", "d", " ", "o", "n", "l", "y", ")", "*">>

\* C22: the section of an option is its heading followed by the parts of
\* its fields in the order type line, default value, description, example
\* value, related packages, declaration list, each part being what the
\* field gives when it is the only one.  The heading names the option and
\* its anchor and is there for every option; the type line is there exactly
\* when the type is, and has the read-only marker exactly when the flag is
\* set; the default and the example are there exactly when the field is;
\* the description and the related packages exactly when the field is
\* present and not empty, the related-packages text standing in the section
\* as it was given; the declaration list only when there are declarations.
C22_SectionLayout ==
    rpc = "done" =>
        /\ rendered = OnlyHeading \o TypeAlone \o DefaultAlone \o DescriptionAlone
                      \o ExampleAlone \o RelatedAlone \o DeclarationsAlone
        /\ OnlyHeading = <<"#", "#", " ">> \o <<Backtick>> \o rname \o <<Backtick>> \o <<" ", "{", "#">>
                         \o make_anchor_id(rname, ropts.anchor_prefix) \o <<"}">>
                         \o <<"\n", "\n">>
        /\ TypeAlone =
              IF ropt.option_type = None THEN <<>>
              ELSE <<"*", "*", "T", "y", "p", "e", ":", "*", "*", " ">> \o <<Backtick>> \o ropt.option_type[1] \o <<Backtick>>
                   \o (IF ropt.read_only THEN ReadOnlyMarker ELSE <<>>)
                   \o <<"\n", "\n">>
        /\ (DefaultAlone # <<>>) = (ropt.default # None)
        /\ ropt.default # None =>
              starts_with(DefaultAlone, <<"*", "*", "D", "e", "f", "a", "u", "l", "t", ":", "*", "*">>)
        /\ DescriptionAlone =
              IF DescriptionText = <<>> THEN <<>>
              ELSE DescriptionText \o <<"\n", "\n">>
        /\ (ExampleAlone # <<>>) = (ropt.example # None)
        /\ ropt.example # None =>
              starts_with(ExampleAlone, <<"*", "*", "E", "x", "a", "m", "p", "l", "e", ":", "*", "*">>)
        /\ RelatedAlone =
              IF ropt.related_packages \in {None, Some(<<>>)} THEN <<>>
              ELSE <<"*", "*", "R", "e", "l", "a", "t", "e", "d", " ", "p", "a", "c", "k", "a", "g", "e", "s", ":", "*", "*">> \o <<"\n", "\n">>
                   \o ropt.related_packages[1] \o <<"\n", "\n">>
        /\ DeclarationsAlone # <<>> =>
              ropt.declarations # <<>> /\ ropts.include_declarations

C22_Witness ==
    /\ rpc = "done"
    /\ ropt.option_type # None /\ ropt.read_only
    /\ ropt.default # None /\ ropt.example # None
    /\ DescriptionText = <<"O", "n", ".">>
    /\ ropt.related_packages = Some(<<"[", "p", "_", "q", "]", "(", "u", ")">>)
    /\ Len(ropt.declarations) = 1 /\ ropts.include_declarations
    /\ rendered = OnlyHeading \o TypeAlone \o DefaultAlone \o <<"O", "n", ".">> \o <<"\n", "\n">>
                  \o ExampleAlone \o <<"*", "*", "R", "e", "l", "a", "t", "e", "d", " ", "p", "a", "c", "k", "a", "g", "e", "s", ":", "*", "*">> \o <<"\n", "\n">>
                  \o <<"[", "p", "_", "q", "]", "(", "u", ")">> \o <<"\n", "\n">> \o DeclarationsAlone
    /\ DeclarationsAlone # <<>>

----------------------------------------------------------------------------
(* Claims about the sections parse_doc_comment returns.                    *)

RawLines == split_inclusive(raw)

\* what each line of the comment is: a Type: marker line, an Example:
\* marker line, or neither
KindsOf(ls) ==
    [i \in 1..Len(ls) |->
        IF IsTypeLine(ls[i]) THEN "Type"
        ELSE IF IsExampleLine(ls[i]) THEN "Example" ELSE "None"]

\* what the absence of marker lines says about the buffers and the sections
WithoutMarkers(kinds) ==
    /\ (\A i \in DOMAIN kinds : kinds[i] # "Type") =>
          type_str = <<>> /\ comment[1].doc_type = None
    /\ (\A i \in DOMAIN kinds : kinds[i] # "Example") =>
          example_str = <<>> /\ comment[1].example = None
    /\ (kinds = <<>> \/ kinds[1] # "None") =>
          doc_str = <<>> /\ comment[1].doc = <<>>

\* the sections returned are d, t and e made present or absent
SectionsAre(d, t, e) ==
    /\ comment[1].doc = (IF d = None THEN <<>> ELSE d[1])
    /\ comment[1].doc_type = t
    /\ comment[1].example = e
    /\ t # Some(<<>>) /\ e # Some(<<>>)

----------------------------------------------------------------------------
(* Claims about what the scanner keeps of the lines.                       *)

\* the section line i belongs to: that of the last marker line up to i
SectionAt(kinds, i) ==
    IF \A j \in 1..i : kinds[j] = "None" THEN "Doc"
    ELSE kinds[SetMax({j \in 1..i : kinds[j] # "None"})]

\* what a line adds to the buffer of its section
Contribution(l, kind) ==
    IF kind = "Type" THEN AfterMarker(l, TypeMarker) \o <<"\n">>
    ELSE IF kind = "Example" THEN AfterMarker(l, ExampleMarker) \o <<"\n">>
    ELSE l

\* the contributions of the first n lines to one section, in input order
Gathered(ls, kinds, n, section) ==
    Concat([i \in 1..n |->
               IF SectionAt(kinds, i) = section
               THEN Contribution(ls[i], kinds[i]) ELSE <<>>])

\* the buffers are what the first n lines have added to their sections
BuffersHold(ls, kinds, n) ==
    /\ doc_str = Gathered(ls, kinds, n, "Doc")
    /\ type_str = Gathered(ls, kinds, n, "Type")
    /\ example_str = Gathered(ls, kinds, n, "Example")
    /\ state = SectionAt(kinds, n)

IsPrefix(s, t) == Len(s) <= Len(t) /\ Take(t, Len(s)) = s

\* C24: when the scan is over, and before the buffers are normalized, each
\* buffer holds, in input order, what the lines of the comment that belong
\* to its section have added, and nothing else: a line that is no marker
\* line is in the buffer of the
\* state current at that line, as it is; a marker line has added the text
\* after its marker, ended by a newline, to the buffer of its own section;
\* so no line is in two buffers and none is missing.  A step of the scan
\* only appends to the buffers.
C24_NoLineLost ==
    /\ [](lpc = "done" =>
            BuffersHold(RawLines, KindsOf(RawLines), Len(RawLines)))
    /\ [][/\ IsPrefix(doc_str, doc_str')
          /\ IsPrefix(type_str, type_str')
          /\ IsPrefix(example_str, example_str')]_vars

C24_Witness ==
    /\ lpc = "done"
    /\ raw = LineDoesX \o <<"\n">> \o LineType \o <<"\n">> \o LineMore \o <<"\n">>
             \o LineExample
    /\ doc_str = LineDoesX \o <<"\n">>
    /\ type_str = <<" ", "a", " ", "-", ">", " ", "b", "\n">> \o LineMore \o <<"\n">>
    /\ example_str = <<" ", "f", " ", "1", "\n">>

====
